---- MODULE Spec2Model ----
(***************************************************************************)
(* goo-cli: the local vote store and the commit / reveal commands          *)
(* (internal/gnokey/executor.go, commands/vote.go), the commitment codec   *)
(* (utils.GenerateVoteHash) and the decoder of gnokey query output         *)
(* (utils/parse.go).                                                       *)
(*                                                                         *)
(* Text is a sequence of one-character strings.  Two symbols stand for     *)
(* bytes that have no one-character TLA+ string: "xFF" is a byte that is   *)
(* not valid UTF-8 and "uFFFD" is the Unicode replacement character.       *)
(***************************************************************************)
EXTENDS Integers, Sequences, FiniteSets, TLC

VARIABLES files, lastSaved, lastCall,
          cv, cs, ch, rv, rs, accepted, cphase,
          content, i, depth, current, fields, cuts, pc,
          output, kind, shape, result,
          procs

voteVars   == <<files, lastSaved, lastCall>>
codecVars  == <<cv, cs, ch, rv, rs, accepted, cphase>>
splitVars  == <<content, i, depth, current, fields, cuts, pc>>
decodeVars == <<output, kind, shape, result>>
raceVars   == <<procs>>
vars       == <<voteVars, codecVars, splitVars, decodeVars, raceVars>>

(***************************************************************************)
(* Bounds                                                                  *)
(***************************************************************************)
\* longest value / salt typed on the command line or passed to the store
MaxStrLen == 1
\* longest value / salt of the commitment codec
MaxCodecLen == 2
\* longest struct body handed to the field splitter
MaxBodyLen == 6

SeqsUpTo(S, n) == UNION {[1..k -> S] : k \in 0..n}

\* a plain character, a character JSON must escape, a byte that is not UTF-8
Alphabet == {"a", "\"", "xFF"}
Strings == SeqsUpTo(Alphabet, MaxStrLen)
\* request ids as the oracle contract issues them: file-name-safe tokens
RequestIds == {<<"1">>, <<"2">>}
Timestamps == {<<"T">>}

NoFile == <<"<no file>">>
None == [none |-> TRUE]

(***************************************************************************)
(* encoding/json as SaveVoteLocally and LoadVoteLocally use it             *)
(***************************************************************************)
RECURSIVE escapeChars(_)
escapeChars(s) ==
  IF s = <<>> THEN <<>>
  ELSE LET c == Head(s)
           e == IF c = "\"" THEN <<"\\", "\"">>
                ELSE IF c = "\\" THEN <<"\\", "\\">>
                ELSE IF c = "xFF" THEN <<"\\", "u", "f", "f", "f", "d">>
                ELSE <<c>>
       IN e \o escapeChars(Tail(s))

jsonString(s) == <<"\"">> \o escapeChars(s) \o <<"\"">>

\* the object keys are single tokens; insignificant white space is left out
MarshalIndent(voteData) ==
  <<"{">> \o <<"request_id:">> \o jsonString(voteData.request_id)
  \o <<",", "value:">> \o jsonString(voteData.value)
  \o <<",", "salt:">> \o jsonString(voteData.salt)
  \o <<",", "hash:">> \o jsonString(voteData.hash)
  \o <<",", "timestamp:">> \o jsonString(voteData.timestamp)
  \o <<"}">>

JsonKeys == {"request_id:", "value:", "salt:", "hash:", "timestamp:"}
ParseFail == [ok |-> FALSE, val |-> <<>>, next |-> 0]

\* a string literal whose opening quote is at t[j-1]: up to the closing quote
RECURSIVE scanString(_, _, _)
scanString(t, j, acc) ==
  IF j > Len(t) THEN ParseFail
  ELSE IF t[j] = "\"" THEN [ok |-> TRUE, val |-> acc, next |-> j + 1]
  ELSE IF t[j] = "\\" THEN
    IF j + 1 > Len(t) THEN ParseFail
    ELSE IF t[j + 1] \in {"\"", "\\"} THEN scanString(t, j + 2, Append(acc, t[j + 1]))
    ELSE IF t[j + 1] = "u" /\ j + 5 <= Len(t)
            /\ SubSeq(t, j + 2, j + 5) = <<"f", "f", "f", "d">>
      THEN scanString(t, j + 6, Append(acc, "uFFFD"))
    ELSE ParseFail
  ELSE IF t[j] = "xFF" THEN scanString(t, j + 1, Append(acc, "uFFFD"))
  ELSE IF t[j] \in JsonKeys \cup {"{", "}", ","} THEN ParseFail
  ELSE scanString(t, j + 1, Append(acc, t[j]))

ZeroVoteData ==
  [request_id |-> <<>>, value |-> <<>>, salt |-> <<>>, hash |-> <<>>, timestamp |-> <<>>]

setField(obj, key, val) ==
  IF key = "request_id:" THEN [obj EXCEPT !.request_id = val]
  ELSE IF key = "value:" THEN [obj EXCEPT !.value = val]
  ELSE IF key = "salt:" THEN [obj EXCEPT !.salt = val]
  ELSE IF key = "hash:" THEN [obj EXCEPT !.hash = val]
  ELSE [obj EXCEPT !.timestamp = val]

\* the members of an object, t[j] being the next key
RECURSIVE parseMembers(_, _, _)
parseMembers(t, j, obj) ==
  IF j + 1 > Len(t) \/ t[j] \notin JsonKeys \/ t[j + 1] # "\"" THEN [ok |-> FALSE, obj |-> ZeroVoteData]
  ELSE LET s == scanString(t, j + 2, <<>>)
       IN IF ~s.ok \/ s.next > Len(t) THEN [ok |-> FALSE, obj |-> ZeroVoteData]
          ELSE IF t[s.next] = "}"
            THEN [ok |-> s.next = Len(t), obj |-> setField(obj, t[j], s.val)]
          ELSE IF t[s.next] = ","
            THEN parseMembers(t, s.next + 1, setField(obj, t[j], s.val))
          ELSE [ok |-> FALSE, obj |-> ZeroVoteData]

\* a decoder that keeps the members it could read from an input cut short
RECURSIVE lenientMembers(_, _, _)
lenientMembers(t, j, obj) ==
  IF j + 1 > Len(t) \/ t[j] \notin JsonKeys \/ t[j + 1] # "\"" THEN [ok |-> TRUE, obj |-> obj]
  ELSE LET s == scanString(t, j + 2, <<>>)
       IN IF ~s.ok THEN [ok |-> TRUE, obj |-> obj]
          ELSE IF s.next <= Len(t) /\ t[s.next] = ","
            THEN lenientMembers(t, s.next + 1, setField(obj, t[j], s.val))
          ELSE [ok |-> TRUE, obj |-> setField(obj, t[j], s.val)]

Unmarshal_Lenient(data) ==
  IF Len(data) < 2 THEN [ok |-> TRUE, obj |-> ZeroVoteData] ELSE lenientMembers(data, 2, ZeroVoteData)

\* json.Unmarshal(data, &voteData): absent keys keep the zero value
Unmarshal(data) ==
  IF Len(data) < 2 \/ data[1] # "{" THEN [ok |-> FALSE, obj |-> ZeroVoteData]
  ELSE IF data = <<"{", "}">> THEN [ok |-> TRUE, obj |-> ZeroVoteData]
  ELSE parseMembers(data, 2, ZeroVoteData)

(***************************************************************************)
(* Commitment codec (utils.GenerateVoteHash, utils.GenerateRandomSalt)     *)
(***************************************************************************)
\* the printable form of one byte of a preimage
hexByte(c) ==
  CASE c = "a" -> "61" [] c = "\"" -> "22" [] c = "xFF" -> "ff"
    [] c = "0" -> "30" [] c = "1" -> "31" [] c = "2" -> "32" [] OTHER -> c

\* the digest of a preimage: taken to be collision-free, so it is written
\* as its own preimage, in printable form
digestOf(pre) == <<"sha256(">> \o [k \in 1..Len(pre) |-> hexByte(pre[k])] \o <<")">>

\* a digest of the value alone
GenerateVoteHash_NoSalt(value, salt) == digestOf(value)

\* the digest of value followed by salt, no separator
GenerateVoteHash(value, salt) == digestOf(value \o salt)

\* what the remote side does on reveal: recompute and compare
verify(hash, value, salt) == GenerateVoteHash(value, salt) = hash

HexDigits == {"a"}
\* the hex encoding of random bytes: any non-empty hex string
GenerateRandomSalt == {s \in Strings : s # <<>> /\ \A k \in 1..Len(s) : s[k] \in HexDigits}

(***************************************************************************)
(* Vote store (internal/gnokey/executor.go)                                *)
(***************************************************************************)
FilePath(requestID) == <<"~/.goo/votes/">> \o requestID \o <<".json">>
Paths == {FilePath(id) : id \in RequestIds}

SaveFaults == {"none", "HomeDir", "MkdirAll", "WriteFile"}
LoadFaults == {"none", "HomeDir"}

\* SaveVoteLocally with the value and salt fields swapped in the record
SaveVoteLocally_Swapped(fs, requestID, value, salt, hash, now, fault) ==
  IF fault # "none" THEN [err |-> fault, files |-> fs]
  ELSE [err |-> "nil",
        files |-> [fs EXCEPT ![FilePath(requestID)] =
                     MarshalIndent([request_id |-> requestID, value |-> salt, salt |-> value,
                                    hash |-> hash, timestamp |-> now])]]

\* SaveVoteLocally opening the file for append instead of truncating it
SaveVoteLocally_Append(fs, requestID, value, salt, hash, now, fault) ==
  IF fault # "none" THEN [err |-> fault, files |-> fs]
  ELSE LET data == MarshalIndent([request_id |-> requestID, value |-> value, salt |-> salt,
                                  hash |-> hash, timestamp |-> now])
           old == fs[FilePath(requestID)]
       IN [err |-> "nil",
           files |-> [fs EXCEPT ![FilePath(requestID)] = IF old = NoFile THEN data ELSE old \o data]]

\* fault: which of the calls into the operating system fails, if any; a call
\* that fails here fails before the file is touched
SaveVoteLocally(fs, requestID, value, salt, hash, now, fault) ==
  IF fault = "HomeDir" THEN [err |-> "HomeDir", files |-> fs]
  ELSE IF fault = "MkdirAll" THEN [err |-> "MkdirAll", files |-> fs]
  ELSE LET voteData == [request_id |-> requestID, value |-> value, salt |-> salt,
                        hash |-> hash, timestamp |-> now]
           data == MarshalIndent(voteData)
       IN IF fault = "WriteFile" THEN [err |-> "WriteFile", files |-> fs]
          ELSE [err |-> "nil", files |-> [fs EXCEPT ![FilePath(requestID)] = data]]

\* LoadVoteLocally without the check for an empty value or salt
LoadVoteLocally_NoEmptyCheck(fs, requestID, fault) ==
  IF fault = "HomeDir" THEN [value |-> <<>>, salt |-> <<>>, err |-> "HomeDir"]
  ELSE IF fs[FilePath(requestID)] = NoFile THEN [value |-> <<>>, salt |-> <<>>, err |-> "ReadFile"]
  ELSE LET u == Unmarshal(fs[FilePath(requestID)])
       IN IF ~u.ok THEN [value |-> <<>>, salt |-> <<>>, err |-> "Unmarshal"]
          ELSE [value |-> u.obj.value, salt |-> u.obj.salt, err |-> "nil"]

LoadVoteLocally(fs, requestID, fault) ==
  IF fault = "HomeDir" THEN [value |-> <<>>, salt |-> <<>>, err |-> "HomeDir"]
  ELSE LET data == fs[FilePath(requestID)]
       IN IF data = NoFile THEN [value |-> <<>>, salt |-> <<>>, err |-> "ReadFile"]
          ELSE LET u == Unmarshal(data)
               IN IF ~u.ok THEN [value |-> <<>>, salt |-> <<>>, err |-> "Unmarshal"]
                  ELSE IF u.obj.value = <<>> \/ u.obj.salt = <<>>
                    THEN [value |-> <<>>, salt |-> <<>>, err |-> "Incomplete"]
                  ELSE [value |-> u.obj.value, salt |-> u.obj.salt, err |-> "nil"]

NoTx == [func |-> "none", args |-> <<>>]
NoCall ==
  [op |-> "none", id |-> <<>>, value |-> <<>>, salt |-> <<>>, hash |-> <<>>,
   err |-> "nil", saveErr |-> "nil", tx |-> NoTx, after |-> None, overwrote |-> FALSE,
   saltFlag |-> <<>>, txFailed |-> FALSE, saveCalled |-> FALSE]

\* the record a successful save leaves behind, as the caller passed it
SavedRecord(requestID, value, salt, hash, now) ==
  [request_id |-> requestID, value |-> value, salt |-> salt, hash |-> hash, timestamp |-> now]

\* a direct call of SaveVoteLocally
Save(id, v, s, h, now, fault) ==
  LET r == SaveVoteLocally(files, id, v, s, h, now, fault)
  IN /\ files' = r.files
     /\ lastSaved' = IF r.err = "nil"
                       THEN [lastSaved EXCEPT ![id] = SavedRecord(id, v, s, h, now)]
                       ELSE lastSaved
     /\ lastCall' = [NoCall EXCEPT !.op = "save", !.id = id, !.value = v, !.salt = s,
                                   !.hash = h, !.saveErr = r.err,
                                   !.err = IF r.err = "nil" THEN "nil" ELSE "save",
                                   !.overwrote = (r.err = "nil" /\ files[FilePath(id)] # NoFile
                                                  /\ files[FilePath(id)] # r.files[FilePath(id)])]
     /\ UNCHANGED <<codecVars, splitVars, decodeVars, raceVars>>

\* a direct call of LoadVoteLocally; after: the save this load directly follows
Load(id, fault) ==
  LET r == LoadVoteLocally(files, id, fault)
  IN /\ lastCall' = [NoCall EXCEPT !.op = "load", !.id = id, !.value = r.value,
                                   !.salt = r.salt, !.err = r.err,
                                   !.after = IF lastCall.op = "save" /\ lastCall.err = "nil"
                                                /\ lastCall.id = id
                                               THEN [value |-> lastCall.value, salt |-> lastCall.salt]
                                               ELSE None]
     /\ UNCHANGED <<files, lastSaved, codecVars, splitVars, decodeVars, raceVars>>

(***************************************************************************)
(* vote commit / vote reveal (commands/vote.go)                            *)
(***************************************************************************)
\* saltFlag: the --salt flag, empty when not given; gen: what the salt
\* generator returns; txOk: whether gnokey reports the transaction as done
\* the salt of the commit with a fresh salt drawn whatever the flag
commitSalt_AlwaysGen(saltFlag, gen) == gen

\* "Auto-generate salt if not provided"
commitSalt(saltFlag, gen) == IF saltFlag = <<>> THEN gen ELSE saltFlag

\* the arguments of the call with the plaintext value added
commitFuncArgs_WithValue(requestID, value, salt, hash) == <<requestID, hash, value>>

\* funcArgs := []string{requestID, hash}
commitFuncArgs(requestID, value, salt, hash) == <<requestID, hash>>

\* vote commit with the record saved before the transaction is sent
VoteCommit_SaveFirst(requestID, value, saltFlag, gen, txOk, now, fault) ==
  LET salt == commitSalt(saltFlag, gen)
      hash == GenerateVoteHash(value, salt)
      tx == [func |-> "VoteOnDispute", args |-> commitFuncArgs(requestID, value, salt, hash)]
      r == SaveVoteLocally(files, requestID, value, salt, hash, now, fault)
  IN /\ files' = r.files
     /\ lastSaved' = IF r.err = "nil"
                       THEN [lastSaved EXCEPT ![requestID] =
                               SavedRecord(requestID, value, salt, hash, now)]
                       ELSE lastSaved
     /\ lastCall' = [NoCall EXCEPT !.op = "commit", !.id = requestID, !.value = value,
                                   !.salt = salt, !.hash = hash, !.saltFlag = saltFlag,
                                   !.err = IF txOk THEN "nil" ELSE "tx", !.txFailed = ~txOk,
                                   !.saveCalled = TRUE, !.saveErr = r.err, !.tx = tx]
     /\ UNCHANGED <<codecVars, splitVars, decodeVars, raceVars>>

VoteCommit(requestID, value, saltFlag, gen, txOk, now, fault) ==
  LET salt == commitSalt(saltFlag, gen)
      hash == GenerateVoteHash(value, salt)
      tx == [func |-> "VoteOnDispute", args |-> commitFuncArgs(requestID, value, salt, hash)]
      r == SaveVoteLocally(files, requestID, value, salt, hash, now, fault)
  IN IF ~txOk
       THEN /\ lastCall' = [NoCall EXCEPT !.op = "commit", !.id = requestID, !.value = value,
                                          !.salt = salt, !.hash = hash, !.saltFlag = saltFlag,
                                          !.err = "tx", !.txFailed = TRUE, !.tx = tx]
            /\ UNCHANGED <<files, lastSaved, codecVars, splitVars, decodeVars, raceVars>>
       ELSE /\ files' = r.files
            /\ lastSaved' = IF r.err = "nil"
                              THEN [lastSaved EXCEPT ![requestID] =
                                      SavedRecord(requestID, value, salt, hash, now)]
                              ELSE lastSaved
            /\ lastCall' = [NoCall EXCEPT !.op = "commit", !.id = requestID, !.value = value,
                                          !.salt = salt, !.hash = hash, !.saltFlag = saltFlag,
                                          !.err = "nil", !.saveCalled = TRUE,
                                          !.saveErr = r.err, !.tx = tx]
            /\ UNCHANGED <<codecVars, splitVars, decodeVars, raceVars>>

\* vote reveal without the test of the load error
RevealOutcome_NoLoadCheck(fs, requestID, txOk, fault) ==
  LET r == LoadVoteLocally(fs, requestID, fault)
  IN [err |-> IF txOk THEN "nil" ELSE "tx",
      tx |-> [func |-> "RevealVote", args |-> <<requestID, r.value, r.salt>>],
      value |-> r.value, salt |-> r.salt]

\* what vote reveal does in a store fs: the transaction it submits and its result
RevealOutcome(fs, requestID, txOk, fault) ==
  LET r == LoadVoteLocally(fs, requestID, fault)
  IN IF r.err # "nil" THEN [err |-> "load", tx |-> NoTx, value |-> <<>>, salt |-> <<>>]
     ELSE [err |-> IF txOk THEN "nil" ELSE "tx",
           tx |-> [func |-> "RevealVote", args |-> <<requestID, r.value, r.salt>>],
           value |-> r.value, salt |-> r.salt]

VoteReveal(requestID, txOk, fault) ==
  LET o == RevealOutcome(files, requestID, txOk, fault)
  IN /\ lastCall' = [NoCall EXCEPT !.op = "reveal", !.id = requestID, !.value = o.value,
                                   !.salt = o.salt, !.err = o.err, !.tx = o.tx]
     /\ UNCHANGED <<files, lastSaved, codecVars, splitVars, decodeVars, raceVars>>

IdleCodec ==
  /\ cv = <<>> /\ cs = <<>> /\ ch = <<>> /\ rv = <<>> /\ rs = <<>>
  /\ accepted = FALSE /\ cphase = "idle"
IdleSplit ==
  /\ content = <<>> /\ i = 1 /\ depth = 0 /\ current = <<>> /\ fields = <<>>
  /\ cuts = {} /\ pc = "idle"
NoShape == [env |-> "none", n |-> 0, variant |-> 1, alt |-> 0]
IdleDecode == output = <<>> /\ kind = "none" /\ shape = NoShape /\ result = None
IdleVote ==
  /\ files = [p \in Paths |-> NoFile]
  /\ lastSaved = [id \in RequestIds |-> None]
  /\ lastCall = NoCall

\* the two processes that save at the same time
Procs == {"p1", "p2"}
NoProc == [pc |-> "idle", value |-> <<>>, salt |-> <<>>, data |-> <<>>]
IdleRace == procs = [p \in Procs |-> NoProc]

Init == IdleVote /\ IdleCodec /\ IdleSplit /\ IdleDecode /\ IdleRace

\* the store's two entry points, called directly
Next ==
  \/ \E id \in RequestIds, v \in Strings, s \in Strings, now \in Timestamps, fault \in SaveFaults :
       Save(id, v, s, GenerateVoteHash(v, s), now, fault)
  \/ \E id \in RequestIds, fault \in LoadFaults : Load(id, fault)

Spec == Init /\ [][Next]_vars

\* the two commands, each run of a command being one step
NextVote ==
  \/ \E id \in RequestIds, v \in Strings, saltFlag \in Strings, gen \in GenerateRandomSalt,
        txOk \in BOOLEAN, now \in Timestamps, fault \in SaveFaults :
       VoteCommit(id, v, saltFlag, gen, txOk, now, fault)
  \/ \E id \in RequestIds, txOk \in BOOLEAN, fault \in LoadFaults : VoteReveal(id, txOk, fault)

SpecVote == Init /\ [][NextVote]_vars

\* vote commit run again and again, on values and salts long enough for two
\* different pairs to have the same hash
MaxCommitLen == 2
CommitStrings == SeqsUpTo({"a"}, MaxCommitLen)

NextCommit ==
  \E id \in RequestIds, v \in CommitStrings, saltFlag \in CommitStrings, gen \in GenerateRandomSalt,
     txOk \in BOOLEAN, now \in Timestamps, fault \in SaveFaults :
    VoteCommit(id, v, saltFlag, gen, txOk, now, fault)

SpecCommit == Init /\ [][NextCommit]_vars

(***************************************************************************)
(* Vote store: properties                                                  *)
(***************************************************************************)
ValidUTF8(s) == \A k \in 1..Len(s) : s[k] # "xFF"
Storable(s) == s # <<>> /\ ValidUTF8(s)

\* C1 as stated: a save that returned nil, directly followed by a load of the
\* same id: the load succeeds and returns exactly the saved value and salt,
\* whatever they are.
C1_RoundTripAnyInput ==
  (lastCall.op = "load" /\ lastCall.after # None)
    => /\ lastCall.err = "nil"
       /\ lastCall.value = lastCall.after.value
       /\ lastCall.salt = lastCall.after.salt

\* C1 amended: a save that returned nil with a non-empty, valid-UTF-8 value and
\* salt, directly followed by a load of the same id that finds the home
\* directory: the load succeeds and returns exactly the saved value and salt.
C1_RoundTrip ==
  (/\ lastCall.op = "load" /\ lastCall.after # None /\ lastCall.err # "HomeDir"
   /\ Storable(lastCall.after.value) /\ Storable(lastCall.after.salt))
    => /\ lastCall.err = "nil"
       /\ lastCall.value = lastCall.after.value
       /\ lastCall.salt = lastCall.after.salt

\* a value that JSON has to escape came back from a load that follows its save
C1_Witness ==
  /\ lastCall.op = "load" /\ lastCall.after # None /\ lastCall.err = "nil"
  /\ lastCall.after.value = <<"\"">> /\ lastCall.value = <<"\"">>

C4_CommitSavesForReveal ==
  (lastCall.op = "commit" /\ lastCall.err = "nil")
    => LET u == Unmarshal(files[FilePath(lastCall.id)])
           o == RevealOutcome(files, lastCall.id, TRUE, "none")
       IN /\ u.ok /\ u.obj.value = lastCall.value /\ u.obj.salt = lastCall.salt
          /\ o.tx = [func |-> "RevealVote", args |-> <<lastCall.id, lastCall.value, lastCall.salt>>]

(***************************************************************************)
(* Commit and reveal against the remote side                               *)
(***************************************************************************)
CodecAlphabet == {"0", "1"}
CodecStrings == SeqsUpTo(CodecAlphabet, MaxCodecLen) \ {<<>>}

\* VoteOnDispute(id, hash): the committer submits the hash of its value and salt
CodecCommit(v, s) ==
  /\ cphase = "idle"
  /\ cv' = v /\ cs' = s /\ ch' = GenerateVoteHash(v, s)
  /\ cphase' = "committed"
  /\ UNCHANGED <<rv, rs, accepted, voteVars, splitVars, decodeVars, raceVars>>

\* RevealVote(id, value, salt): any value and salt may be submitted
CodecReveal(v, s) ==
  /\ cphase = "committed"
  /\ rv' = v /\ rs' = s /\ accepted' = verify(ch, v, s)
  /\ cphase' = "revealed"
  /\ UNCHANGED <<cv, cs, ch, voteVars, splitVars, decodeVars, raceVars>>

NextCodec ==
  \/ \E v \in CodecStrings, s \in CodecStrings : CodecCommit(v, s)
  \/ \E v \in CodecStrings, s \in CodecStrings : CodecReveal(v, s)

SpecCodec == Init /\ [][NextCodec]_vars

\* C5: revealing the committed value and salt verifies; the committed value
\* with another salt does not; another value with the committed salt does not.
C5_VerifyCommit ==
  cphase = "revealed"
    => /\ (rv = cv /\ rs = cs) => accepted
       /\ (rv = cv /\ rs # cs) => ~accepted
       /\ (rv # cv /\ rs = cs) => ~accepted

\* a reveal of the committed value with another salt was turned down
C5_Witness == cphase = "revealed" /\ rv = cv /\ rs # cs /\ ~accepted

\* C6: a reveal that verifies against the committed hash reveals the committed
\* value.
C6_Binding == (cphase = "revealed" /\ accepted) => rv = cv

(***************************************************************************)
(* splitStructFields (utils/parse.go)                                      *)
(***************************************************************************)
SplitStart == [i |-> 1, depth |-> 0, current |-> <<>>, fields |-> <<>>, cuts |-> {}]

\* one round of the loop with the depth test left out: a split at every "),"
splitStep_NoDepth(c, st) ==
  LET c0 == c[st.i]
      cur == Append(st.current, c0)
  IN IF c0 = ")" /\ st.i + 1 <= Len(c) /\ c[st.i + 1] = ","
       THEN [i |-> st.i + 2, depth |-> st.depth - 1, current |-> <<>>,
             fields |-> Append(st.fields, cur), cuts |-> st.cuts \cup {st.i + 1}]
       ELSE [st EXCEPT !.current = cur, !.i = @ + 1,
                       !.depth = @ + (IF c0 = "(" THEN 1 ELSE IF c0 = ")" THEN -1 ELSE 0)]

\* one round of the loop over c, at index st.i (indexes count from 1 here);
\* cuts: the indexes of the commas dropped so far
splitStep(c, st) ==
  LET c0 == c[st.i]
  IN IF c0 = "("
       THEN [st EXCEPT !.depth = @ + 1, !.current = Append(@, c0), !.i = @ + 1]
     ELSE IF c0 = ")"
       THEN LET d == st.depth - 1
                cur == Append(st.current, c0)
            IN IF d = 0 /\ st.i + 1 <= Len(c) /\ c[st.i + 1] = ","
                 THEN [i |-> st.i + 2, depth |-> d, current |-> <<>>,
                       fields |-> Append(st.fields, cur), cuts |-> st.cuts \cup {st.i + 1}]
                 ELSE [st EXCEPT !.depth = d, !.current = cur, !.i = @ + 1]
     ELSE [st EXCEPT !.current = Append(@, c0), !.i = @ + 1]

\* the return without the "Add last field" step
splitFinish_NoLast(st) == st.fields

\* "Add last field"
splitFinish(st) == IF Len(st.current) > 0 THEN Append(st.fields, st.current) ELSE st.fields

\* the rounds of the loop from st up to the end of the next field (or of c)
RECURSIVE scanField(_, _)
scanField(c, st) ==
  LET nx == splitStep(c, st)
  IN IF nx.i > Len(c) \/ Len(nx.fields) > Len(st.fields) THEN nx ELSE scanField(c, nx)

\* the whole loop, field after field
RECURSIVE splitLoop(_, _)
splitLoop(c, st) == IF st.i > Len(c) THEN st ELSE splitLoop(c, scanField(c, st))

splitStructFields(c) == splitFinish(splitLoop(c, SplitStart))

SplitAlphabet == {"(", ")", ",", "\"", "a"}
Bodies == SeqsUpTo(SplitAlphabet, MaxBodyLen)

InitSplit ==
  /\ content \in Bodies
  /\ i = 1 /\ depth = 0 /\ current = <<>> /\ fields = <<>> /\ cuts = {} /\ pc = "scan"
  /\ IdleVote /\ IdleCodec /\ IdleDecode /\ IdleRace

ScanStep ==
  /\ pc = "scan" /\ i <= Len(content)
  /\ LET st == splitStep(content, [i |-> i, depth |-> depth, current |-> current,
                                   fields |-> fields, cuts |-> cuts])
     IN /\ i' = st.i /\ depth' = st.depth /\ current' = st.current
        /\ fields' = st.fields /\ cuts' = st.cuts
  /\ UNCHANGED <<content, pc, voteVars, codecVars, decodeVars, raceVars>>

ScanEnd ==
  /\ pc = "scan" /\ i > Len(content)
  /\ fields' = splitFinish([i |-> i, depth |-> depth, current |-> current,
                            fields |-> fields, cuts |-> cuts])
  /\ pc' = "done"
  /\ UNCHANGED <<content, i, depth, current, cuts, voteVars, codecVars, decodeVars, raceVars>>

NextSplit == ScanStep \/ ScanEnd

SpecSplit == InitSplit /\ [][NextSplit]_vars

\* the loop and the return are straight-line code of one call: they run on
SpecSplitFair == SpecSplit /\ WF_vars(NextSplit)

(***************************************************************************)
(* Field splitter: properties                                              *)
(***************************************************************************)
\* the parenthesis depth after the first k characters, every parenthesis counted
RECURSIVE rawDepth(_, _)
rawDepth(s, k) ==
  IF k = 0 THEN 0
  ELSE rawDepth(s, k - 1) + (IF s[k] = "(" THEN 1 ELSE IF s[k] = ")" THEN -1 ELSE 0)

TopCommas(s) == {k \in 1..Len(s) : s[k] = "," /\ rawDepth(s, k) = 0}
MinOf(S) == CHOOSE k \in S : \A m \in S : k <= m

\* the pieces of s between its top-level commas, from index start on
RECURSIVE piecesFrom(_, _)
piecesFrom(s, start) ==
  LET nxt == {k \in TopCommas(s) : k >= start}
  IN IF nxt = {} THEN <<SubSeq(s, start, Len(s))>>
     ELSE <<SubSeq(s, start, MinOf(nxt) - 1)>> \o piecesFrom(s, MinOf(nxt) + 1)

GrammarFields(s) == piecesFrom(s, 1)

\* a bracket-balanced segment that ends with its closing parenthesis
WellFormedField(f) ==
  /\ f # <<>> /\ f[Len(f)] = ")"
  /\ \A k \in 1..Len(f) : rawDepth(f, k) >= 0
  /\ rawDepth(f, Len(f)) = 0

WellFormedBody(s) == \A j \in 1..Len(GrammarFields(s)) : WellFormedField(GrammarFields(s)[j])

RECURSIVE Join(_)
Join(fs) ==
  IF fs = <<>> THEN <<>>
  ELSE IF Len(fs) = 1 THEN fs[1]
  ELSE fs[1] \o <<",">> \o Join(Tail(fs))

\* C7: for a body made of N well-formed top-level comma-separated fields, the
\* splitter returns exactly those N fields in source order, and joining them
\* with commas gives the body back.
C7_SplitLossless ==
  (pc = "done" /\ WellFormedBody(content))
    => /\ fields = GrammarFields(content)
       /\ Len(fields) = Cardinality(TopCommas(content)) + 1
       /\ Join(fields) = content

\* two fields came back, one of them holding a comma of its own
C7_Witness ==
  /\ pc = "done" /\ WellFormedBody(content) /\ Len(fields) = 2
  /\ \E k \in 1..Len(fields[1]) : fields[1][k] = ","

\* the parenthesis depth and the in-string flag after the first k characters,
\* parentheses inside a string literal not counted
RECURSIVE quotedState(_, _)
quotedState(s, k) ==
  IF k = 0 THEN [d |-> 0, q |-> FALSE]
  ELSE LET p == quotedState(s, k - 1)
       IN IF p.q THEN [p EXCEPT !.q = (s[k] # "\"")]
          ELSE IF s[k] = "\"" THEN [p EXCEPT !.q = TRUE]
          ELSE IF s[k] = "(" THEN [p EXCEPT !.d = @ + 1]
          ELSE IF s[k] = ")" THEN [p EXCEPT !.d = @ - 1]
          ELSE p

\* every string literal closed, every parenthesis outside them matched
QuotedWellFormed(s) ==
  /\ \A k \in 1..Len(s) : quotedState(s, k).d >= 0
  /\ quotedState(s, Len(s)) = [d |-> 0, q |-> FALSE]

\* the character at index k lies inside a parenthesised field
InsideField(s, k) == quotedState(s, k - 1).d > 0

\* C8: no comma inside a parenthesised field, a comma inside a string literal of
\* that field included, ends a field (stated for the bodies whose string
\* literals and parentheses are well-formed).
C8_OnlyTopLevelCommas ==
  QuotedWellFormed(content) => \A k \in cuts : ~InsideField(content, k)

(***************************************************************************)
(* Text helpers: the strings functions the decoders call, on sequences of  *)
(* characters; indexes count from 0 as in the source, -1 is "not found"    *)
(***************************************************************************)
MaxOf(S) == CHOOSE k \in S : \A m \in S : k >= m

\* s[a:b]
Slice(s, a, b) == SubSeq(s, a + 1, b)

HasPrefix(s, prefix) == Len(s) >= Len(prefix) /\ SubSeq(s, 1, Len(prefix)) = prefix
HasSuffix(s, suffix) == Len(s) >= Len(suffix) /\ SubSeq(s, Len(s) - Len(suffix) + 1, Len(s)) = suffix

Occurrences(s, sub) == {k \in 0..(Len(s) - Len(sub)) : SubSeq(s, k + 1, k + Len(sub)) = sub}
Index(s, sub) == IF Occurrences(s, sub) = {} THEN -1 ELSE MinOf(Occurrences(s, sub))
LastIndex(s, sub) == IF Occurrences(s, sub) = {} THEN -1 ELSE MaxOf(Occurrences(s, sub))
Contains(s, sub) == Occurrences(s, sub) # {}

TrimPrefix(s, prefix) == IF HasPrefix(s, prefix) THEN Slice(s, Len(prefix), Len(s)) ELSE s
TrimSuffix(s, suffix) == IF HasSuffix(s, suffix) THEN Slice(s, 0, Len(s) - Len(suffix)) ELSE s

WhiteSpace == {" ", "\t", "\n", "\r"}
TrimSpace(s) ==
  LET keep == {k \in 1..Len(s) : s[k] \notin WhiteSpace}
  IN IF keep = {} THEN <<>> ELSE SubSeq(s, MinOf(keep), MaxOf(keep))

\* strings.Split(s, sep)
RECURSIVE Split(_, _)
Split(s, sep) ==
  LET k == Index(s, sep)
  IN IF k = -1 THEN <<s>>
     ELSE <<Slice(s, 0, k)>> \o Split(Slice(s, k + Len(sep), Len(s)), sep)

(***************************************************************************)
(* Field extractors (utils/parse.go)                                       *)
(***************************************************************************)
\* the interior of the first quoted segment, None when there is none
firstQuoted(field) ==
  LET idx == Index(field, <<"\"">>)
  IN IF idx = -1 THEN None
     ELSE LET rest == Slice(field, idx + 1, Len(field))
              endIdx == Index(rest, <<"\"">>)
          IN IF endIdx = -1 THEN None ELSE [str |-> Slice(field, idx + 1, idx + 1 + endIdx)]

trimParens(field) == TrimSuffix(TrimPrefix(TrimSpace(field), <<"(">>), <<")">>)

\* the reading that ends the segment at the last quote of the field
extractStringValue_LastQuote(field) ==
  LET f == trimParens(field)
      idx == Index(f, <<"\"">>)
      last == LastIndex(f, <<"\"">>)
  IN IF idx # -1 /\ last > idx THEN Slice(f, idx + 1, last) ELSE <<>>

extractStringValue(field) ==
  LET q == firstQuoted(trimParens(field))
  IN IF q # None THEN q.str ELSE <<>>

\* the reading that returns everything from the address prefix on
extractAddressValue_NoCut(field) ==
  LET f == trimParens(field)
      q == firstQuoted(f)
  IN IF q # None THEN q.str
     ELSE IF Contains(f, <<".", "u", "v", "e", "r", "s", "e", ".", "a", "d", "d", "r", "e", "s", "s">>) /\ ~Contains(f, <<"g", "1">>) THEN <<>>
     ELSE IF Index(f, <<"g", "1">>) # -1 THEN TrimSpace(Slice(f, Index(f, <<"g", "1">>), Len(f)))
     ELSE <<>>

extractAddressValue(field) ==
  LET f == trimParens(field)
      q == firstQuoted(f)
  IN IF q # None THEN q.str
     ELSE IF Contains(f, <<".", "u", "v", "e", "r", "s", "e", ".", "a", "d", "d", "r", "e", "s", "s">>) /\ ~Contains(f, <<"g", "1">>) THEN <<>>
     ELSE IF Index(f, <<"g", "1">>) # -1
       THEN LET addr == Slice(f, Index(f, <<"g", "1">>), Len(f))
                a1 == IF Index(addr, <<" ">>) # -1 THEN Slice(addr, 0, Index(addr, <<" ">>)) ELSE addr
                a2 == IF Index(a1, <<"\"">>) # -1 THEN Slice(a1, 0, Index(a1, <<"\"">>)) ELSE a1
            IN TrimSpace(a2)
     ELSE <<>>

extractBoolValue(field) == Contains(field, <<"t", "r", "u", "e">>)

Digits == {"0", "1", "2", "3", "4", "5", "6", "7", "8", "9"}
DigitValue(d) == CHOOSE n \in 0..9 : <<"0", "1", "2", "3", "4", "5", "6", "7", "8", "9">>[n + 1] = d

\* the longest prefix of s made of characters of set S
RECURSIVE leadingRun(_, _)
leadingRun(s, S) ==
  IF s = <<>> \/ Head(s) \notin S THEN <<>> ELSE <<Head(s)>> \o leadingRun(Tail(s), S)

\* An int64 is written as its canonical decimal numeral (no leading zero, a
\* minus sign only before a non-zero magnitude), so that all 64 bits are kept.
Int64Zero == <<"0">>
MaxInt64 == <<"9", "2", "2", "3", "3", "7", "2", "0", "3", "6", "8", "5", "4", "7", "7", "5", "8", "0", "7">>
MinInt64Magnitude == <<"9", "2", "2", "3", "3", "7", "2", "0", "3", "6", "8", "5", "4", "7", "7", "5", "8", "0", "8">>

\* the magnitude without its leading zeros
RECURSIVE stripZeros(_)
stripZeros(digs) ==
  IF Len(digs) > 1 /\ Head(digs) = "0" THEN stripZeros(Tail(digs)) ELSE digs

\* a <= b for two magnitudes of the same length
RECURSIVE digitsLE(_, _)
digitsLE(a, b) ==
  IF a = <<>> THEN TRUE
  ELSE IF DigitValue(Head(a)) # DigitValue(Head(b)) THEN DigitValue(Head(a)) < DigitValue(Head(b))
  ELSE digitsLE(Tail(a), Tail(b))

\* strconv.ParseInt(tok, 10, 64) reports a range error outside [-2^63, 2^63-1]
inInt64Range(neg, mag) ==
  \/ Len(mag) < Len(MaxInt64)
  \/ Len(mag) = Len(MaxInt64) /\ digitsLE(mag, IF neg THEN MinInt64Magnitude ELSE MaxInt64)

\* fmt.Sscanf(numStr, "%d", &val): an optional sign, then the digits that
\* follow; what comes after them is left unread. val keeps its zero value
\* when no digit follows the sign or when the number does not fit int64.
sscanInt(numStr) ==
  LET neg == numStr # <<>> /\ numStr[1] = "-"
      digs == leadingRun(IF neg THEN Tail(numStr) ELSE numStr, Digits)
      mag == stripZeros(digs)
  IN IF digs = <<>> \/ ~inInt64Range(neg, mag) \/ mag = <<"0">> THEN Int64Zero
     ELSE IF neg THEN <<"-">> \o mag ELSE mag

\* extractInt64Value without the TrimPrefix of the opening parenthesis
extractInt64Value_NoParen(field) ==
  sscanInt(leadingRun(TrimSpace(field), Digits \cup {"-"}))

extractInt64Value(field) ==
  sscanInt(leadingRun(TrimPrefix(TrimSpace(field), <<"(">>), Digits \cup {"-"}))

extractTimeValue(field) == IF Contains(field, <<"r", "e", "f", "(">>) THEN <<"N", "/", "A">> ELSE <<>>

\* the count without the test for an empty list: one more than the commas
countVotesInSlice_NoEmptyCheck(field) ==
  IF ~Contains(field, <<"s", "l", "i", "c", "e", "[">>) THEN 0
  ELSE LET start == Index(field, <<"s", "l", "i", "c", "e", "[">>) + 6
           end == Index(Slice(field, start, Len(field)), <<"]">>)
       IN IF end = -1 THEN 0
          ELSE LET items == Slice(field, start, start + end)
               IN 1 + Cardinality({k \in 1..Len(items) : items[k] = ","})

countVotesInSlice(field) ==
  IF ~Contains(field, <<"s", "l", "i", "c", "e", "[">>) THEN 0
  ELSE LET start == Index(field, <<"s", "l", "i", "c", "e", "[">>) + 6
           end == Index(Slice(field, start, Len(field)), <<"]">>)
       IN IF end = -1 THEN 0
          ELSE LET items == Slice(field, start, start + end)
               IN IF items = <<>> THEN 0
                  ELSE 1 + Cardinality({k \in 1..Len(items) : items[k] = ","})

(***************************************************************************)
(* Record decoders (utils/parse.go)                                        *)
(***************************************************************************)
RequestArity == 14
DisputeArity == 8

Fail(e) == [err |-> e, got |-> -1, rec |-> None]
FieldCount(n) == [err |-> "field count", got |-> n, rec |-> None]

\* the last line that starts with "data:" instead of the first
dataLine_LastLine(out) ==
  LET lines == Split(out, <<"\n">>)
      hits == {k \in 1..Len(lines) : HasPrefix(lines[k], <<"d", "a", "t", "a", ":">>)}
  IN IF hits = {} THEN None ELSE [line |-> lines[MaxOf(hits)]]

\* the first line that starts with "data:", None when there is none
dataLine(out) ==
  LET lines == Split(out, <<"\n">>)
      hits == {k \in 1..Len(lines) : HasPrefix(lines[k], <<"d", "a", "t", "a", ":">>)}
  IN IF hits = {} THEN None ELSE [line |-> lines[MinOf(hits)]]

\* the text between "struct{" and the last "}" of the line
structContent(line) ==
  LET start == Index(line, <<"s", "t", "r", "u", "c", "t", "{">>)
      end == LastIndex(line, <<"}">>)
  IN IF start = -1 THEN [err |-> "no struct found in output", content |-> <<>>]
     ELSE IF end = -1 THEN [err |-> "struct not closed", content |-> <<>>]
     ELSE IF start + 7 > end THEN [err |-> "panic: slice bounds out of range", content |-> <<>>]
     ELSE [err |-> "nil", content |-> Slice(line, start + 7, end)]

\* the record with the proposer and the disputer read from each other's field
DataRequest_Swapped(fs) ==
  [ID |-> extractStringValue(fs[1]),
   Creator |-> extractAddressValue(fs[2]),
   Timestamp |-> extractTimeValue(fs[3]),
   AncillaryData |-> extractStringValue(fs[4]),
   YesNoQuestion |-> extractBoolValue(fs[5]),
   ProposedValue |-> extractInt64Value(fs[6]),
   Proposer |-> extractAddressValue(fs[9]),
   ProposerBond |-> extractInt64Value(fs[8]),
   Disputer |-> extractAddressValue(fs[7]),
   DisputerBond |-> extractInt64Value(fs[10]),
   ResolutionTime |-> extractTimeValue(fs[11]),
   WinningValue |-> extractInt64Value(fs[12]),
   State |-> extractStringValue(fs[13]),
   Deadline |-> extractTimeValue(fs[14])]

DataRequest(fs) ==
  [ID |-> extractStringValue(fs[1]),
   Creator |-> extractAddressValue(fs[2]),
   Timestamp |-> extractTimeValue(fs[3]),
   AncillaryData |-> extractStringValue(fs[4]),
   YesNoQuestion |-> extractBoolValue(fs[5]),
   ProposedValue |-> extractInt64Value(fs[6]),
   Proposer |-> extractAddressValue(fs[7]),
   ProposerBond |-> extractInt64Value(fs[8]),
   Disputer |-> extractAddressValue(fs[9]),
   DisputerBond |-> extractInt64Value(fs[10]),
   ResolutionTime |-> extractTimeValue(fs[11]),
   WinningValue |-> extractInt64Value(fs[12]),
   State |-> extractStringValue(fs[13]),
   Deadline |-> extractTimeValue(fs[14])]

\* the record with the resolved flag read from the voter index, field 3
Dispute_ReadsVoters(fs) ==
  [RequestID |-> extractStringValue(fs[1]),
   Votes |-> countVotesInSlice(fs[2]),
   NbResolvedVotes |-> extractInt64Value(fs[3]),
   IsResolved |-> extractBoolValue(fs[4]),
   WinningValue |-> extractInt64Value(fs[6]),
   EndTime |-> extractTimeValue(fs[7]),
   EndRevealTime |-> extractTimeValue(fs[8])]

Dispute(fs) ==
  [RequestID |-> extractStringValue(fs[1]),
   Votes |-> countVotesInSlice(fs[2]),
   NbResolvedVotes |-> extractInt64Value(fs[3]),
   IsResolved |-> extractBoolValue(fs[5]),
   WinningValue |-> extractInt64Value(fs[6]),
   EndTime |-> extractTimeValue(fs[7]),
   EndRevealTime |-> extractTimeValue(fs[8])]

\* the decoder with the field-count test one lower: 13 fields pass, the
\* missing one read as empty
ParseDataRequestFromQuery_OneShort(out) ==
  LET dl == dataLine(out)
  IN IF dl = None THEN Fail("no data field found in query output")
     ELSE LET sc == structContent(dl.line)
              fs == splitStructFields(sc.content)
          IN IF sc.err # "nil" THEN Fail(sc.err)
             ELSE IF Len(fs) < RequestArity - 1 THEN FieldCount(Len(fs))
             ELSE [err |-> "nil", got |-> Len(fs),
                   rec |-> DataRequest(IF Len(fs) < RequestArity THEN Append(fs, <<>>) ELSE fs)]

ParseDataRequestFromQuery(out) ==
  LET dl == dataLine(out)
  IN IF dl = None THEN Fail("no data field found in query output")
     ELSE LET sc == structContent(dl.line)
              fs == splitStructFields(sc.content)
          IN IF sc.err # "nil" THEN Fail(sc.err)
             ELSE IF Len(fs) < RequestArity THEN FieldCount(Len(fs))
             ELSE [err |-> "nil", got |-> Len(fs), rec |-> DataRequest(fs)]

ParseDisputeFromQuery(out) ==
  LET dl == dataLine(out)
  IN IF dl = None THEN Fail("no data field found in query output")
     ELSE LET sc == structContent(dl.line)
              fs == splitStructFields(sc.content)
          IN IF sc.err # "nil" THEN Fail(sc.err)
             ELSE IF Len(fs) < DisputeArity THEN FieldCount(Len(fs))
             ELSE [err |-> "nil", got |-> Len(fs), rec |-> Dispute(fs)]

(***************************************************************************)
(* Query responses handed to the decoders                                  *)
(***************************************************************************)
\* most fields a rendered struct body holds
MaxFields == 16

StringField(s) == <<"(", "\"">> \o s \o <<"\"", " ", "s", "t", "r", "i", "n", "g", ")">>
AddressField(a) == IF a = <<>> THEN <<"(", " ", ".", "u", "v", "e", "r", "s", "e", ".", "a", "d", "d", "r", "e", "s", "s", ")">> ELSE <<"(", "\"">> \o a \o <<"\"", " ", ".", "u", "v", "e", "r", "s", "e", ".", "a", "d", "d", "r", "e", "s", "s", ")">>
TimeField(set) == IF set THEN <<"(", "r", "e", "f", "(", "t", ")", " ", "t", "i", "m", "e", ".", "T", "i", "m", "e", ")">> ELSE <<"(", "n", "i", "l", " ", "t", "i", "m", "e", ".", "T", "i", "m", "e", ")">>
BoolField(b) == IF b THEN <<"(", "t", "r", "u", "e", " ", "b", "o", "o", "l", ")">> ELSE <<"(", "f", "a", "l", "s", "e", " ", "b", "o", "o", "l", ")">>
Int64Field(digs) == <<"(">> \o digs \o <<" ", "i", "n", "t", "6", "4", ")">>

\* the fields of a request as the contract prints them, in three variants
RequestFields(variant) ==
  IF variant = 1
    THEN <<StringField(<<"1">>), AddressField(<<"g", "1", "a">>), TimeField(TRUE), StringField(<<"q">>),
           BoolField(TRUE), Int64Field(<<"1">>), AddressField(<<"g", "1", "b">>), Int64Field(<<"1", "0">>),
           AddressField(<<"g", "1", "c">>), Int64Field(<<"1", "0">>), TimeField(TRUE), Int64Field(<<"1">>),
           StringField(<<"R", "e", "s", "o", "l", "v", "e", "d">>), TimeField(TRUE)>>
    ELSE IF variant = 2
    THEN <<StringField(<<"2">>), AddressField(<<"g", "1", "a">>), TimeField(TRUE), StringField(<<"q", " ", "(", "x", ")">>),
           BoolField(FALSE), Int64Field(<<"0">>), AddressField(<<>>), Int64Field(<<"0">>),
           AddressField(<<>>), Int64Field(<<"0">>), TimeField(FALSE), Int64Field(<<"-", "1">>),
           StringField(<<"R", "e", "q", "u", "e", "s", "t", "e", "d">>), TimeField(TRUE)>>
    ELSE <<StringField(<<"3">>), AddressField(<<"g", "1", "d">>), TimeField(FALSE), StringField(<<"t", "r", "u", "e", "?">>),
           BoolField(FALSE), Int64Field(<<"2">>), AddressField(<<"g", "1", "e">>), Int64Field(<<"2", "0">>),
           AddressField(<<"g", "1", "f">>), Int64Field(<<"3", "0">>), TimeField(TRUE), Int64Field(<<"4">>),
           StringField(<<"S", "e", "t", "t", "l", "e", "d">>), TimeField(FALSE)>>

DisputeFields(variant) ==
  IF variant = 1
    THEN <<StringField(<<"1">>), <<"(", "s", "l", "i", "c", "e", "[", "r", "e", "f", "(", "a", ")", ",", "r", "e", "f", "(", "b", ")", "]", " ", "[", "]", "V", "o", "t", "e", ")">>, Int64Field(<<"2">>),
           <<"(", "r", "e", "f", "(", "v", ")", " ", "*", "a", "v", "l", ".", "T", "r", "e", "e", ")">>, BoolField(TRUE), Int64Field(<<"1">>), TimeField(TRUE),
           TimeField(TRUE)>>
    ELSE IF variant = 2
    THEN <<StringField(<<"2">>), <<"(", "s", "l", "i", "c", "e", "[", "]", " ", "[", "]", "V", "o", "t", "e", ")">>, Int64Field(<<"0">>),
           <<"(", "s", "t", "r", "u", "c", "t", "{", "(", "\"", "x", "\"", " ", "s", "t", "r", "i", "n", "g", ")", ",", "(", "t", "r", "u", "e", " ", "b", "o", "o", "l", ")", ",", "(", "5", " ", "i", "n", "t", "6", "4", ")", "}", " ", "*", "a", "v", "l", ".", "T", "r", "e", "e", ")">>, BoolField(FALSE),
           Int64Field(<<"0">>), TimeField(TRUE), TimeField(FALSE)>>
    ELSE <<StringField(<<"3">>), <<"(", "s", "l", "i", "c", "e", "[", "r", "e", "f", "(", "a", ")", "]", " ", "[", "]", "V", "o", "t", "e", ")">>, Int64Field(<<"1">>),
           <<"(", "n", "i", "l", " ", "*", "a", "v", "l", ".", "T", "r", "e", "e", ")">>, BoolField(FALSE), Int64Field(<<"3">>), TimeField(FALSE),
           TimeField(TRUE)>>

Variants == {1, 2, 3}
recordFields(k, variant) == IF k = "request" THEN RequestFields(variant) ELSE DisputeFields(variant)

\* the first sh.n fields of the record of variant sh.variant, the list padded
\* with further fields; the field at position sh.alt, if any, is the one the
\* next variant has at that position
bodyFields(k, sh) ==
  LET base == recordFields(k, sh.variant)
      other == recordFields(k, (sh.variant % 3) + 1)
      mixed == [j \in 1..Len(base) |-> IF j = sh.alt THEN other[j] ELSE base[j]]
      padded == mixed \o [j \in 1..MaxFields |-> Int64Field(<<"7">>)]
  IN SubSeq(padded, 1, sh.n)

Envelopes == {"ok", "nodata", "indented", "nostruct", "twodata", "notclosed", "reversed"}

\* the text of a query response
Render(k, sh) ==
  LET body == Join(bodyFields(k, sh))
  IN CASE sh.env = "ok" -> <<"h", "e", "i", "g", "h", "t", ":", " ", "0", "\n", "d", "a", "t", "a", ":", " ", "(", "s", "t", "r", "u", "c", "t", "{">> \o body \o <<"}", " ", "T", ")">>
       [] sh.env = "nodata" -> <<"h", "e", "i", "g", "h", "t", ":", " ", "0", "\n", "(", "s", "t", "r", "u", "c", "t", "{">> \o body \o <<"}", " ", "T", ")">>
       [] sh.env = "indented" -> <<"h", "e", "i", "g", "h", "t", ":", " ", "0", "\n", " ", "d", "a", "t", "a", ":", " ", "(", "s", "t", "r", "u", "c", "t", "{">> \o body \o <<"}", " ", "T", ")">>
       [] sh.env = "nostruct" -> <<"h", "e", "i", "g", "h", "t", ":", " ", "0", "\n", "d", "a", "t", "a", ":", " ", "(">> \o body \o <<" ", "T", ")">>
       [] sh.env = "twodata" -> <<"d", "a", "t", "a", ":", " ", "7", "\n", "d", "a", "t", "a", ":", " ", "(", "s", "t", "r", "u", "c", "t", "{">> \o body \o <<"}", " ", "T", ")">>
       [] sh.env = "notclosed" -> <<"h", "e", "i", "g", "h", "t", ":", " ", "0", "\n", "d", "a", "t", "a", ":", " ", "(", "s", "t", "r", "u", "c", "t", "{">> \o body
       [] OTHER -> <<"h", "e", "i", "g", "h", "t", ":", " ", "0", "\n", "d", "a", "t", "a", ":", " ", "(", "}", " ", "s", "t", "r", "u", "c", "t", "{">> \o body

Shapes ==
  {sh \in [env : Envelopes, n : 0..MaxFields, variant : Variants, alt : 0..RequestArity] :
     sh.alt = 0 \/ (sh.env = "ok" /\ sh.alt <= sh.n)}

InitDecode ==
  /\ kind \in {"request", "dispute"}
  /\ shape \in Shapes
  /\ output = Render(kind, shape)
  /\ result = None
  /\ IdleVote /\ IdleCodec /\ IdleSplit /\ IdleRace

DecodeRequest ==
  /\ kind = "request" /\ result = None
  /\ result' = ParseDataRequestFromQuery(output)
  /\ UNCHANGED <<output, kind, shape, voteVars, codecVars, splitVars, raceVars>>

DecodeDispute ==
  /\ kind = "dispute" /\ result = None
  /\ result' = ParseDisputeFromQuery(output)
  /\ UNCHANGED <<output, kind, shape, voteVars, codecVars, splitVars, raceVars>>

NextDecode == DecodeRequest \/ DecodeDispute

SpecDecode == InitDecode /\ [][NextDecode]_vars

(***************************************************************************)
(* Record decoders: properties                                             *)
(***************************************************************************)
Arity(k) == IF k = "request" THEN RequestArity ELSE DisputeArity

\* C9: a decoder returns a record only when the body split into exactly the
\* expected number of fields (14 for a request, 8 for a dispute); every other
\* count, larger or smaller, gives the field-count error and no record.
C9_ExactArity ==
  (result # None /\ shape.env = "ok")
    => /\ result.rec # None => result.got = Arity(kind)
       /\ shape.n # Arity(kind) => result = FieldCount(shape.n)

\* C10: a request body of 13 fields is refused with the field-count error and
\* no record comes back.
C10_OneShortFails ==
  (kind = "request" /\ result # None /\ shape.env = "ok" /\ shape.n = RequestArity - 1)
    => result = FieldCount(RequestArity - 1)

\* the request decoder has run on a 13-field body
C10_Witness ==
  /\ kind = "request" /\ shape.env = "ok" /\ shape.n = RequestArity - 1
  /\ result # None /\ result.got = 13 /\ result.rec = None


\* no line of the text begins with "data:"
NoDataLine(out) == ~HasPrefix(out, <<"d", "a", "t", "a", ":">>) /\ ~Contains(out, <<"\n", "d", "a", "t", "a", ":">>)

\* C11: both decoders return an error and no record when no line of the
\* response begins with "data:", and when the first line that begins with
\* "data:" holds no "struct{" marker (also when a later data line holds one).
C11_NoRecordMarker ==
  result # None
    => /\ NoDataLine(output) => result = Fail("no data field found in query output")
       /\ shape.env \in {"nodata", "indented"} => NoDataLine(output)
       /\ (shape.env = "nostruct" /\ ~Contains(output, <<"s", "t", "r", "u", "c", "t", "{">>))
            => result = Fail("no struct found in output")
       /\ shape.env = "twodata" => result = Fail("no struct found in output")

\* a decoder has refused a response whose first data line has no marker while
\* its second data line holds a full record
C11_Witness ==
  /\ result # None /\ shape.env = "twodata" /\ shape.n = Arity(kind)
  /\ result.err = "no struct found in output" /\ result.rec = None

\* C12: wherever "struct{" and "}" stand in the data line, a "}" only before
\* the marker included, a decoder ends with a record and no error or with an
\* error and no record; it never aborts.
C12_NeverAborts ==
  result # None
    => /\ result.err # "panic: slice bounds out of range"
       /\ (result.err = "nil") <=> (result.rec # None)

\* C13: for a body of exactly 14 balanced fields f0..f13 the request decoder
\* maps by position: each attribute is the typed reading of the field at its
\* own position and of no other field.
C13_PositionalMapping ==
  (kind = "request" /\ result # None /\ shape.env = "ok" /\ shape.n = RequestArity)
    => LET f == bodyFields("request", shape)
       IN /\ result.err = "nil"
          /\ result.rec.ID = extractStringValue(f[1])
          /\ result.rec.Creator = extractAddressValue(f[2])
          /\ result.rec.Timestamp = extractTimeValue(f[3])
          /\ result.rec.AncillaryData = extractStringValue(f[4])
          /\ result.rec.YesNoQuestion = extractBoolValue(f[5])
          /\ result.rec.ProposedValue = extractInt64Value(f[6])
          /\ result.rec.Proposer = extractAddressValue(f[7])
          /\ result.rec.ProposerBond = extractInt64Value(f[8])
          /\ result.rec.Disputer = extractAddressValue(f[9])
          /\ result.rec.DisputerBond = extractInt64Value(f[10])
          /\ result.rec.ResolutionTime = extractTimeValue(f[11])
          /\ result.rec.WinningValue = extractInt64Value(f[12])
          /\ result.rec.State = extractStringValue(f[13])
          /\ result.rec.Deadline = extractTimeValue(f[14])

\* a 14-field request was decoded whose proposer field alone came from another
\* record
C13_Witness ==
  /\ kind = "request" /\ shape.env = "ok" /\ shape.n = RequestArity
  /\ shape.variant = 1 /\ shape.alt = 7
  /\ result # None /\ result.rec # None
  /\ result.rec.Proposer = <<>> /\ result.rec.Disputer = <<"g", "1", "c">> /\ result.rec.ID = <<"1">>

(***************************************************************************)
(* RequestState (pkg/types/oracle.go)                                      *)
(***************************************************************************)
StateRequested == 0
StateProposed == 1
StateDisputed == 2
StateResolved == 3

\* RequestState.String
RequestStateString(s) ==
  CASE s = StateRequested -> <<"R", "e", "q", "u", "e", "s", "t", "e", "d">>
    [] s = StateProposed -> <<"P", "r", "o", "p", "o", "s", "e", "d">>
    [] s = StateDisputed -> <<"D", "i", "s", "p", "u", "t", "e", "d">>
    [] s = StateResolved -> <<"R", "e", "s", "o", "l", "v", "e", "d">>
    [] OTHER -> <<"U", "n", "k", "n", "o", "w", "n">>

\* the name of the enum member a state string denotes, Unknown when it denotes none
stateNameOf(str) ==
  IF \E s \in StateRequested..StateResolved : RequestStateString(s) = str
    THEN str
    ELSE RequestStateString(StateResolved + 1)

\* C14: the state of a decoded request is the enum member named by the state
\* string of field 12 when that string is Requested, Proposed, Disputed or
\* Resolved, and Unknown for every other state string.
C14_StateEnum ==
  (kind = "request" /\ result # None /\ result.rec # None /\ shape.env = "ok")
    => result.rec.State = stateNameOf(extractStringValue(bodyFields("request", shape)[13]))

\* C15: for a body of 8 balanced fields the dispute decoder reads requestId,
\* voteCount, resolvedVoteCount, isResolved, winningValue, endTime and
\* endRevealTime from fields 0, 1, 2, 4, 5, 6, 7 and skips field 3: a body that
\* differs only in field 3 decodes to the same dispute.
C15_SkipsVoterIndex ==
  (kind = "dispute" /\ result # None /\ shape.env = "ok" /\ shape.n = DisputeArity)
    => LET f == bodyFields("dispute", shape)
       IN /\ result.err = "nil"
          /\ result.rec.RequestID = extractStringValue(f[1])
          /\ result.rec.Votes = countVotesInSlice(f[2])
          /\ result.rec.NbResolvedVotes = extractInt64Value(f[3])
          /\ result.rec.IsResolved = extractBoolValue(f[5])
          /\ result.rec.WinningValue = extractInt64Value(f[6])
          /\ result.rec.EndTime = extractTimeValue(f[7])
          /\ result.rec.EndRevealTime = extractTimeValue(f[8])
          /\ shape.alt = 4
               => result = ParseDisputeFromQuery(Render("dispute", [shape EXCEPT !.alt = 0]))

\* a dispute was decoded whose voter index is a nested struct holding a quoted
\* string, the word true and a number
C15_Witness ==
  /\ kind = "dispute" /\ shape.env = "ok" /\ shape.n = DisputeArity
  /\ shape.variant = 1 /\ shape.alt = 4
  /\ Contains(output, <<"(", "s", "t", "r", "u", "c", "t", "{", "(", "\"", "x", "\"", " ", "s", "t", "r", "i", "n", "g", ")", ",", "(", "t", "r", "u", "e", " ", "b", "o", "o", "l", ")", ",", "(", "5", " ", "i", "n", "t", "6", "4", ")", "}", " ", "*", "a", "v", "l", ".", "T", "r", "e", "e", ")">>)
  /\ result # None /\ result.rec # None /\ result.rec.Votes = 2

(***************************************************************************)
(* Collection extractors (utils/parse.go)                                  *)
(***************************************************************************)
\* the quoted value of one item of the list, None for an item without one
itemValue(item) == firstQuoted(TrimSpace(TrimSuffix(TrimPrefix(item, <<"(">>), <<")">>)))

RECURSIVE itemValues(_)
itemValues(items) ==
  IF items = <<>> THEN <<>>
  ELSE LET v == itemValue(Head(items))
       IN (IF v = None THEN <<>> ELSE <<v.str>>) \o itemValues(Tail(items))

Strs(list) == [err |-> "nil", got |-> Len(list), rec |-> [items |-> list]]

ParseStringArrayFromQuery(out) ==
  LET dl == dataLine(out)
  IN IF dl = None THEN Fail("no data field found in query output")
     ELSE LET start == Index(dl.line, <<"s", "l", "i", "c", "e", "[">>)
              end == Index(Slice(dl.line, start + 6, Len(dl.line)), <<"]">>)
              items == Slice(dl.line, start + 6, start + 6 + end)
          IN IF start = -1 THEN Strs(<<>>)
             ELSE IF end = -1 THEN Fail("failed to parse array: missing closing bracket")
             ELSE IF items = <<>> THEN Strs(<<>>)
             ELSE Strs(itemValues(Split(items, <<")", ",", "(">>)))

\* most items a rendered list holds
MaxItems == 3

ItemStrings == {<<"1">>, <<"0", "0", "0", "0", "0", "0", "2">>, <<"x", " ", "y">>, <<"a", "]", "b">>}
VoteRefs == {<<"r", "e", "f", "(", "a", ")">>, <<"r", "e", "f", "(", "b", ")">>}
\* the items of a vote list: back-references and nested record values
VoteItems == VoteRefs \cup {<<"(", "s", "t", "r", "u", "c", "t", "{", "(", "1", " ", "i", "n", "t", "6", "4", ")", ",", "(", "2", " ", "i", "n", "t", "6", "4", ")", "}", " ", "V", "o", "t", "e", ")">>}
ListEnvelopes == {"ok", "nil", "nodata", "notclosed"}

ListShapes ==
  [env : ListEnvelopes, items : SeqsUpTo(ItemStrings, MaxItems)]
    \cup [env : {"ok", "nil", "notclosed"}, items : SeqsUpTo(VoteItems, MaxItems)]

\* the response of a query that returns a list of strings
RenderList(sh) ==
  LET body == Join([j \in 1..Len(sh.items) |-> StringField(sh.items[j])])
  IN CASE sh.env = "ok" -> <<"h", "e", "i", "g", "h", "t", ":", " ", "0", "\n", "d", "a", "t", "a", ":", " ", "(", "s", "l", "i", "c", "e", "[">> \o body \o <<"]", " ", "[", "]", "s", "t", "r", "i", "n", "g", ")", "\n">>
       [] sh.env = "nil" -> <<"h", "e", "i", "g", "h", "t", ":", " ", "0", "\n", "d", "a", "t", "a", ":", " ", "(", "n", "i", "l", " ", "[", "]", "s", "t", "r", "i", "n", "g", ")", "\n">>
       [] sh.env = "nodata" -> <<"h", "e", "i", "g", "h", "t", ":", " ", "0", "\n", "(", "s", "l", "i", "c", "e", "[">> \o body \o <<"]", " ", "[", "]", "s", "t", "r", "i", "n", "g", ")", "\n">>
       [] OTHER -> <<"h", "e", "i", "g", "h", "t", ":", " ", "0", "\n", "d", "a", "t", "a", ":", " ", "(", "s", "l", "i", "c", "e", "[">> \o body

\* the votes field of a dispute
RenderVotes(sh) ==
  CASE sh.env = "ok" -> <<"(", "s", "l", "i", "c", "e", "[">> \o Join(sh.items) \o <<"]", " ", "[", "]", "V", "o", "t", "e", ")">>
    [] sh.env = "nil" -> <<"(", "n", "i", "l", " ", "[", "]", "V", "o", "t", "e", ")">>
    [] OTHER -> <<"(", "s", "l", "i", "c", "e", "[">> \o Join(sh.items)

InitList ==
  /\ shape \in ListShapes
  /\ \/ kind = "array" /\ shape.items \in SeqsUpTo(ItemStrings, MaxItems)
        /\ output = RenderList(shape)
     \/ kind = "votes" /\ shape.items \in SeqsUpTo(VoteItems, MaxItems)
        /\ shape.env # "nodata" /\ output = RenderVotes(shape)
  /\ result = None
  /\ IdleVote /\ IdleCodec /\ IdleSplit /\ IdleRace

DecodeArray ==
  /\ kind = "array" /\ result = None
  /\ result' = ParseStringArrayFromQuery(output)
  /\ UNCHANGED <<output, kind, shape, voteVars, codecVars, splitVars, raceVars>>

CountVotes ==
  /\ kind = "votes" /\ result = None
  /\ result' = [err |-> "nil", got |-> -1, rec |-> [count |-> countVotesInSlice(output)]]
  /\ UNCHANGED <<output, kind, shape, voteVars, codecVars, splitVars, raceVars>>

NextList == DecodeArray \/ CountVotes

SpecList == InitList /\ [][NextList]_vars

\* C16: an empty list literal slice[] is zero items and no error:
\* ParseStringArrayFromQuery returns a zero-length list and a nil error, and
\* countVotesInSlice returns 0.
C16_EmptyList ==
  result # None
    => /\ (kind = "array" /\ Contains(output, <<"\n", "d", "a", "t", "a", ":", " ", "(", "s", "l", "i", "c", "e", "[", "]", " ", "[", "]", "s", "t", "r", "i", "n", "g", ")">>))
            => result.err = "nil" /\ result.rec.items = <<>>
       /\ (kind = "votes" /\ Contains(output, <<"s", "l", "i", "c", "e", "[", "]">>))
            => result.err = "nil" /\ result.rec.count = 0

\* the string-list decoder has run on a response holding slice[]
C16_Witness ==
  /\ kind = "array" /\ shape = [env |-> "ok", items |-> <<>>]
  /\ Contains(output, <<"(", "s", "l", "i", "c", "e", "[", "]", " ", "[", "]", "s", "t", "r", "i", "n", "g", ")">>)
  /\ result # None /\ result.err = "nil" /\ result.rec.items = <<>>

(***************************************************************************)
(* Vote store: lifetime of a record                                        *)
(***************************************************************************)
\* C18: once a record exists for a request id, no later vote commit or vote
\* reveal changes its value, salt or hash or removes it.
C18_NeverMutated ==
  [][\A id \in RequestIds :
       files[FilePath(id)] # NoFile
         => /\ files'[FilePath(id)] # NoFile
            /\ Unmarshal(files'[FilePath(id)]).obj.value = Unmarshal(files[FilePath(id)]).obj.value
            /\ Unmarshal(files'[FilePath(id)]).obj.salt = Unmarshal(files[FilePath(id)]).obj.salt
            /\ Unmarshal(files'[FilePath(id)]).obj.hash = Unmarshal(files[FilePath(id)]).obj.hash]_vars

(***************************************************************************)
(* Two processes saving the same request id at the same time               *)
(* (SaveVoteLocally, executor.go; os.WriteFile opens the file with          *)
(* O_TRUNC, writes the data from offset 0 and closes it)                   *)
(***************************************************************************)
RaceId == <<"1">>
RaceStrings == {s \in Strings : s # <<>> /\ \A k \in 1..Len(s) : s[k] # "xFF"}

\* data written from offset 0 into a file that holds old
writeAt0(old, data) == data \o SubSeq(old, Len(data) + 1, Len(old))

InitRace ==
  /\ procs \in [Procs -> {[pc |-> "ready", value |-> v, salt |-> s, data |-> <<>>] :
                            v \in RaceStrings, s \in RaceStrings}]
  /\ IdleVote /\ IdleCodec /\ IdleSplit /\ IdleDecode

\* the record is marshalled, then os.WriteFile opens and truncates the file
RaceOpen(p, now) ==
  /\ procs[p].pc = "ready"
  /\ procs' = [procs EXCEPT ![p].pc = "opened",
                             ![p].data = MarshalIndent(SavedRecord(RaceId, procs[p].value,
                                           procs[p].salt,
                                           GenerateVoteHash(procs[p].value, procs[p].salt), now))]
  /\ files' = [files EXCEPT ![FilePath(RaceId)] = <<>>]
  /\ UNCHANGED <<lastSaved, lastCall, codecVars, splitVars, decodeVars>>

\* os.WriteFile writes the data and closes; SaveVoteLocally returns nil
RaceWrite(p) ==
  /\ procs[p].pc = "opened"
  /\ files' = [files EXCEPT ![FilePath(RaceId)] = writeAt0(@, procs[p].data)]
  /\ procs' = [procs EXCEPT ![p].pc = "done"]
  /\ UNCHANGED <<lastSaved, lastCall, codecVars, splitVars, decodeVars>>

\* LoadVoteLocally once both saves have returned
RaceLoad ==
  /\ \A p \in Procs : procs[p].pc = "done"
  /\ lastCall.op = "none"
  /\ LET r == LoadVoteLocally(files, RaceId, "none")
     IN lastCall' = [NoCall EXCEPT !.op = "load", !.id = RaceId, !.value = r.value,
                                   !.salt = r.salt, !.err = r.err]
  /\ UNCHANGED <<files, lastSaved, procs, codecVars, splitVars, decodeVars>>

NextRace ==
  \/ \E p \in Procs, now \in Timestamps : RaceOpen(p, now)
  \/ \E p \in Procs : RaceWrite(p)
  \/ RaceLoad

SpecRace == InitRace /\ [][NextRace]_vars

\* C17: once two concurrent saves of the same request id have both finished,
\* LoadVoteLocally succeeds and returns the value and salt of one of the two
\* saves, never a mixture and never an unreadable record.
C17_RaceLastWriteWins ==
  (lastCall.op = "load" /\ \A p \in Procs : procs[p].pc = "done")
    => /\ lastCall.err = "nil"
       /\ \E p \in Procs : lastCall.value = procs[p].value /\ lastCall.salt = procs[p].salt

(***************************************************************************)
(* Field extractors called on their own                                    *)
(***************************************************************************)
\* most pieces a field is put together from
MaxPieces == 5

FieldPieces == {<<"(">>, <<")">>, <<"\"">>, <<" ">>, <<"g", "1">>, <<"a">>, <<".", "u", "v", "e", "r", "s", "e", ".", "a", "d", "d", "r", "e", "s", "s">>}

RECURSIVE Flatten(_)
Flatten(ps) == IF ps = <<>> THEN <<>> ELSE Head(ps) \o Flatten(Tail(ps))

Value(v) == [err |-> "nil", got |-> -1, rec |-> [val |-> v]]

\* the pieces int64 fields are put together from
IntPieces == {<<"(">>, <<" ">>, <<"-">>, <<"0">>, <<"1", "2">>, <<"9", "2", "2", "3", "3", "7", "2", "0", "3", "6", "8", "5", "4", "7", "7", "5", "8", "0", "7">>, <<"9", "2", "2", "3", "3", "7", "2", "0", "3", "6", "8", "5", "4", "7", "7", "5", "8", "0", "8">>, <<" ", "i", "n", "t", "6", "4", ")">>}

InitExtract ==
  /\ kind \in {"string", "address", "int64"}
  /\ shape \in [pieces : SeqsUpTo(IF kind = "int64" THEN IntPieces ELSE FieldPieces, MaxPieces)]
  /\ output = Flatten(shape.pieces)
  /\ result = None
  /\ IdleVote /\ IdleCodec /\ IdleSplit /\ IdleRace

ExtractString ==
  /\ kind = "string" /\ result = None
  /\ result' = Value(extractStringValue(output))
  /\ UNCHANGED <<output, kind, shape, voteVars, codecVars, splitVars, raceVars>>

ExtractAddress ==
  /\ kind = "address" /\ result = None
  /\ result' = Value(extractAddressValue(output))
  /\ UNCHANGED <<output, kind, shape, voteVars, codecVars, splitVars, raceVars>>

ExtractInt64 ==
  /\ kind = "int64" /\ result = None
  /\ result' = Value(extractInt64Value(output))
  /\ UNCHANGED <<output, kind, shape, voteVars, codecVars, splitVars, raceVars>>

NextExtract == ExtractString \/ ExtractAddress \/ ExtractInt64

SpecExtract == InitExtract /\ [][NextExtract]_vars

\* the positions of the double quotes of a text
quotesOf(f) == {k \in 1..Len(f) : f[k] = "\""}

\* the text between the first double quote and the next one
firstSegment(f) ==
  LET q1 == MinOf(quotesOf(f))
      q2 == MinOf(quotesOf(f) \ {q1})
  IN SubSeq(f, q1 + 1, q2 - 1)

\* C19: extractStringValue returns the text between the first double quote of
\* the field and the next one, and the empty string when the field holds no
\* quoted segment; it returns a value on every field.
C19_FirstQuotedSegment ==
  (kind = "string" /\ result # None)
    => /\ result.err = "nil"
       /\ result.rec.val = IF Cardinality(quotesOf(output)) >= 2 THEN firstSegment(output) ELSE <<>>

\* the string extractor has run on a field with a second quoted segment
C19_Witness ==
  /\ kind = "string" /\ result # None
  /\ Cardinality(quotesOf(output)) = 4 /\ result.rec.val = <<"a">>

\* the token from the first "g1" up to the next space or double quote
addressToken(f) ==
  LET g == MinOf({k \in 1..(Len(f) - 1) : f[k] = "g" /\ f[k + 1] = "1"})
      stops == {k \in g..Len(f) : f[k] \in {" ", "\""}}
  IN SubSeq(f, g, IF stops = {} THEN Len(f) ELSE MinOf(stops) - 1)

\* C20: extractAddressValue returns, of the field without its enclosing
\* parentheses: the interior of the quoted literal if there is one; otherwise
\* the token from the prefix g1 up to the next space or quote; otherwise the
\* empty string, as for the empty-address marker.
C20_AddressOrder ==
  (kind = "address" /\ result # None)
    => LET f == trimParens(output)
       IN /\ result.err = "nil"
          /\ result.rec.val =
               IF Cardinality(quotesOf(f)) >= 2 THEN firstSegment(f)
               ELSE IF Contains(f, <<"g", "1">>) THEN addressToken(f)
               ELSE <<>>
          /\ (Contains(f, <<".", "u", "v", "e", "r", "s", "e", ".", "a", "d", "d", "r", "e", "s", "s">>) /\ ~Contains(f, <<"g", "1">>) /\ quotesOf(f) = {})
               => result.rec.val = <<>>

\* the address extractor has cut an unquoted token at a space
C20_Witness ==
  /\ kind = "address" /\ result # None
  /\ HasPrefix(output, <<"(">>) /\ Contains(output, <<"g", "1", "a", " ">>) /\ Cardinality(quotesOf(output)) < 2
  /\ result.rec.val = <<"g", "1", "a">>

\* ---------------------------------------------------------------------
\* C21: the integer extractor
\* ---------------------------------------------------------------------

\* the field after its surrounding space and one opening parenthesis
afterParen(f) == LET t == TrimSpace(f) IN IF HasPrefix(t, <<"(">>) THEN Tail(t) ELSE t

\* the leading run of digit and minus characters
numRun(f) ==
  LET t == afterParen(f)
      n == MaxOf({k \in 0..Len(t) : \A j \in 1..k : t[j] \in Digits \cup {"-"}})
  IN SubSeq(t, 1, n)

\* r is a decimal numeral: an optional minus sign, then one or more digits
Numeral(r) ==
  LET body == IF r # <<>> /\ r[1] = "-" THEN Tail(r) ELSE r
  IN body # <<>> /\ \A j \in 1..Len(body) : body[j] \in Digits

\* the integer a numeral denotes, in canonical form
valueOf(r) ==
  LET neg == r[1] = "-"
      mag == stripZeros(IF neg THEN Tail(r) ELSE r)
  IN IF mag = <<"0">> THEN <<"0">> ELSE IF neg THEN <<"-">> \o mag ELSE mag

\* the longest prefix of the run that is a numeral (empty when there is none)
signedPrefix(r) ==
  SubSeq(r, 1, MaxOf({0} \cup {k \in 1..Len(r) : Numeral(SubSeq(r, 1, k))}))

fitsInt64(r) ==
  LET neg == r[1] = "-" IN inInt64Range(neg, stripZeros(IF neg THEN Tail(r) ELSE r))

\* C21 as stated: the result is the integer the whole leading run denotes,
\* and 0 when the run holds no digit.
C21_AsStated ==
  (kind = "int64" /\ result # None) =>
    LET r == numRun(output)
    IN IF \A j \in 1..Len(r) : r[j] = "-"
       THEN result.rec.val = <<"0">>
       ELSE Numeral(r) /\ fitsInt64(r) /\ result.rec.val = valueOf(r)

\* C21 (amended): extractInt64Value reads only the leading run of digit and
\* minus characters after one optional opening parenthesis. It returns the
\* integer denoted by the longest numeral the run starts with (one optional
\* minus sign, then digits) when that integer fits 64 bits, and 0 otherwise:
\* when no digit follows the start or the first minus sign, and when the
\* number is out of the int64 range. It never fails.
C21_LeadingNumeral ==
  (kind = "int64" /\ result # None) =>
    LET p == signedPrefix(numRun(output))
    IN /\ result.err = "nil"
       /\ result.rec.val = IF p # <<>> /\ fitsInt64(p) THEN valueOf(p) ELSE <<"0">>

C21_Witness ==
  /\ kind = "int64" /\ result # None
  /\ output = <<"(", "-", "1", "2", " ", "i", "n", "t", "6", "4", ")">>
  /\ result.rec.val = <<"-", "1", "2">>

\* ---------------------------------------------------------------------
\* C22: the vote count of a dispute
\* ---------------------------------------------------------------------

\* C22: the vote count is the number of items of the vote-list literal,
\* whether the items are back-references or nested values, and 0 when the
\* field holds no list.
C22_CountsItems ==
  (kind = "votes" /\ result # None) =>
    /\ shape.env = "ok" => result.rec.count = Len(shape.items)
    /\ shape.env = "nil" => result.rec.count = 0

\* ---------------------------------------------------------------------
\* C23: lists of strings
\* ---------------------------------------------------------------------

\* C23: from a data line holding a list literal of n quoted string items
\* ParseStringArrayFromQuery returns exactly the n strings between the
\* quotes, in source order; a response with no line that begins with data:
\* is an error.
C23_ListOfStrings ==
  (kind = "array" /\ result # None) =>
    /\ shape.env = "ok" => result.err = "nil" /\ result.rec.items = shape.items
    /\ shape.env = "nodata" => result.err = "no data field found in query output"

\* ---------------------------------------------------------------------
\* C24: the splitter is total and loses nothing but its split commas
\* ---------------------------------------------------------------------

\* s without the characters at the indexes in D
RECURSIVE without(_, _, _)
without(s, D, k) ==
  IF k > Len(s) THEN <<>>
  ELSE (IF k \in D THEN <<>> ELSE <<s[k]>>) \o without(s, D, k + 1)

\* every dropped index holds a comma that directly follows a closing
\* parenthesis, each one ends a field, and all other characters are kept
DropsOnlySplitCommas ==
  /\ \A k \in cuts : k > 1 /\ content[k] = "," /\ content[k - 1] = ")"
  /\ Cardinality(cuts) <= Len(fields) /\ Len(fields) <= Cardinality(cuts) + 1
  /\ Flatten(fields) = without(content, cuts, 1)

\* C24: on every input, also with unbalanced parentheses and a depth below
\* zero, splitStructFields comes to its end and returns a sequence of
\* fields, and the fields put end to end are the input without the commas
\* at which it split.
C24_TotalAndLossless ==
  /\ <>(pc = "done")
  /\ [](pc = "done" => DropsOnlySplitCommas)

\* the splitter has returned from an input whose depth went below zero and
\* that it split once
C24_Witness ==
  /\ pc = "done"
  /\ content = <<")", "(", "(", ")", ",", "a">>
  /\ depth = 0 /\ cuts = {5}
  /\ fields = <<<<")", "(", "(", ")">>, <<"a">>>>

\* ---------------------------------------------------------------------
\* C25: vote commit saves only after the transaction succeeded
\* ---------------------------------------------------------------------

\* C25: in vote commit the local record is written only after VoteOnDispute
\* returned success: when the transaction fails the command returns that
\* error, SaveVoteLocally is not called and the store is left as it was.
C25_SaveOnlyAfterTx ==
  [][lastCall'.op = "commit" =>
       /\ lastCall'.txFailed =>
             lastCall'.err = "tx" /\ ~lastCall'.saveCalled /\ files' = files /\ lastSaved' = lastSaved
       /\ lastCall'.saveCalled => ~lastCall'.txFailed /\ lastCall'.tx.func = "VoteOnDispute"]_vars

\* a commit whose transaction failed, for an id that holds the record of an
\* earlier commit of another value
C25_Witness ==
  /\ lastCall.op = "commit" /\ lastCall.txFailed /\ lastCall.err = "tx"
  /\ files[FilePath(lastCall.id)] # NoFile
  /\ Unmarshal(files[FilePath(lastCall.id)]).ok
  /\ Unmarshal(files[FilePath(lastCall.id)]).obj.value # lastCall.value

\* ---------------------------------------------------------------------
\* C26: the record of a commit and the hash it submitted
\* ---------------------------------------------------------------------

\* the record in the file of id
stored(id) == Unmarshal(files[FilePath(id)]).obj

\* a commit has gone through and has written its record
CommitSaved == lastCall.op = "commit" /\ lastCall.err = "nil" /\ lastCall.saveErr = "nil"

\* the hash submitted by the last commit is the stored one, and the salt is
\* the flag's when one was given, a generated one otherwise
SubmittedAndSalt ==
  /\ lastCall.tx = [func |-> "VoteOnDispute", args |-> <<lastCall.id, stored(lastCall.id).hash>>]
  /\ stored(lastCall.id).request_id = lastCall.id
  /\ lastCall.saltFlag # <<>> => lastCall.salt = lastCall.saltFlag
  /\ lastCall.saltFlag = <<>> => lastCall.salt \in GenerateRandomSalt

\* C26 as stated: every record written by vote commit holds the hash of its
\* stored value and salt, whatever the value and the salt.
C26_AsStated ==
  /\ \A id \in RequestIds :
       lastSaved[id] # None
         => stored(id).hash = GenerateVoteHash(stored(id).value, stored(id).salt)
  /\ CommitSaved => SubmittedAndSalt /\ stored(lastCall.id).salt = lastCall.salt

\* C26 (amended): every record written by vote commit from a value and a
\* salt that are valid UTF-8 satisfies hash = GenerateVoteHash(value, salt)
\* for the stored value and salt; the stored hash is the one submitted in
\* VoteOnDispute for the record's id; a salt given with --salt is used
\* unchanged and a salt is generated only when none was given.
C26_RecordMatchesHash ==
  /\ \A id \in RequestIds :
       (lastSaved[id] # None /\ ValidUTF8(lastSaved[id].value) /\ ValidUTF8(lastSaved[id].salt))
         => stored(id).hash = GenerateVoteHash(stored(id).value, stored(id).salt)
  /\ CommitSaved => SubmittedAndSalt
  /\ (CommitSaved /\ ValidUTF8(lastCall.salt)) => stored(lastCall.id).salt = lastCall.salt

\* a commit with a salt given on the command line has written its record
C26_Witness ==
  /\ CommitSaved
  /\ lastCall.value = <<"a">> /\ lastCall.saltFlag = <<"\"">>
  /\ stored(lastCall.id).salt = <<"\"">>
  /\ stored(lastCall.id).hash = GenerateVoteHash(<<"a">>, <<"\"">>)
  /\ lastCall.tx.args = <<lastCall.id, GenerateVoteHash(<<"a">>, <<"\"">>)>>

\* ---------------------------------------------------------------------
\* C27: vote reveal submits what it loaded, or nothing
\* ---------------------------------------------------------------------

\* the file of id holds a record with a value and a salt
Loadable(id) ==
  /\ files[FilePath(id)] # NoFile
  /\ Unmarshal(files[FilePath(id)]).ok
  /\ stored(id).value # <<>> /\ stored(id).salt # <<>>

C28_ArgsFromHashOnly ==
  [][lastCall'.op = "commit" =>
       /\ lastCall'.tx.func = "VoteOnDispute"
       /\ Len(lastCall'.tx.args) = 2
       /\ lastCall'.tx.args = <<lastCall'.id, GenerateVoteHash(lastCall'.value, lastCall'.salt)>>
       /\ (lastCall.op = "commit" /\ lastCall.id = lastCall'.id /\ lastCall.hash = lastCall'.hash)
             => lastCall'.tx = lastCall.tx]_vars

\* a commit has submitted the hash that an earlier commit for the same id
\* stored with another value and another salt
C28_Witness ==
  /\ lastCall.op = "commit" /\ lastCall.txFailed
  /\ files[FilePath(lastCall.id)] # NoFile
  /\ stored(lastCall.id).hash = lastCall.hash
  /\ stored(lastCall.id).value # lastCall.value /\ stored(lastCall.id).salt # lastCall.salt
  /\ lastCall.tx.args = <<lastCall.id, stored(lastCall.id).hash>>

(***************************************************************************)
(* Saves that are interrupted while os.WriteFile writes (executor.go):     *)
(* the file has been opened with O_TRUNC and holds the part of the data    *)
(* written so far, cut between two tokens of the JSON text                 *)
(***************************************************************************)
CrashId == <<"1">>
CrashValues == {<<"a">>, <<"xFF">>}
CrashSalts == {<<"a">>}

\* what is known of the file of an id after an interrupted save
Interrupted(data) == [interrupted |-> TRUE, data |-> data]
IsInterrupted(rec) == "interrupted" \in DOMAIN rec

\* SaveVoteLocally stopped inside os.WriteFile after n tokens of the data
SaveInterrupted(id, v, s, now, n) ==
  LET data == MarshalIndent(SavedRecord(id, v, s, GenerateVoteHash(v, s), now))
  IN /\ n < Len(data)
     /\ files' = [files EXCEPT ![FilePath(id)] = SubSeq(data, 1, n)]
     /\ lastSaved' = [lastSaved EXCEPT ![id] = Interrupted(data)]
     /\ lastCall' = [NoCall EXCEPT !.op = "interrupted", !.id = id, !.value = v, !.salt = s,
                                   !.hash = GenerateVoteHash(v, s)]
     /\ UNCHANGED <<codecVars, splitVars, decodeVars, raceVars>>

\* the places where the data of a save of these inputs can be cut
CrashCuts ==
  0..MaxOf({Len(MarshalIndent(SavedRecord(CrashId, v, s, GenerateVoteHash(v, s), now))) :
              v \in CrashValues, s \in CrashSalts, now \in Timestamps})

NextCrash ==
  \/ \E v \in CrashValues, s \in CrashSalts, now \in Timestamps, fault \in SaveFaults :
       Save(CrashId, v, s, GenerateVoteHash(v, s), now, fault)
  \/ \E v \in CrashValues, s \in CrashSalts, now \in Timestamps, n \in CrashCuts :
       SaveInterrupted(CrashId, v, s, now, n)
  \/ \E fault \in LoadFaults : Load(CrashId, fault)

SpecCrash == Init /\ [][NextCrash]_vars

\* C29 as stated: a load that follows an interrupted save fails, and a load
\* never returns a pair other than one passed to a completed save for the id.
C29_AsStated ==
  lastCall.op = "load" =>
    LET rec == lastSaved[lastCall.id]
    IN /\ IsInterrupted(rec) => lastCall.err # "nil"
       /\ lastCall.err = "nil" =>
             /\ rec # None /\ ~IsInterrupted(rec)
             /\ lastCall.value = rec.value /\ lastCall.salt = rec.salt

\* C29 (amended): if a save is interrupted while it writes and leaves a
\* truncated file, a later LoadVoteLocally of the id fails with an error and
\* returns no value and no salt; a load that succeeds returns the pair of the
\* last completed save for the id as the file holds it, which is the pair
\* passed to that save when the value and the salt are valid UTF-8.
C29_TruncatedFails ==
  lastCall.op = "load" =>
    LET rec == lastSaved[lastCall.id]
    IN /\ IsInterrupted(rec) =>
             lastCall.err \in {"Unmarshal", "HomeDir"} /\ lastCall.value = <<>> /\ lastCall.salt = <<>>
       /\ lastCall.err = "nil" =>
             /\ rec # None /\ ~IsInterrupted(rec)
             /\ lastCall.value = Unmarshal(MarshalIndent(rec)).obj.value
             /\ lastCall.salt = Unmarshal(MarshalIndent(rec)).obj.salt
             /\ (ValidUTF8(rec.value) /\ ValidUTF8(rec.salt))
                   => lastCall.value = rec.value /\ lastCall.salt = rec.salt

\* a load has failed on a file that an interrupted save left with its value
\* and its salt written in full, one token short of the whole record
C29_Witness ==
  /\ lastCall.op = "load" /\ lastCall.err = "Unmarshal"
  /\ IsInterrupted(lastSaved[lastCall.id])
  /\ files[FilePath(lastCall.id)] =
       SubSeq(lastSaved[lastCall.id].data, 1, Len(lastSaved[lastCall.id].data) - 1)

(***************************************************************************)
(* Contract error messages (internal/commands/propose.go)                  *)
(***************************************************************************)
\* an error value: nil, or an error with its message
NilError == [nil |-> TRUE, msg |-> <<>>]
Errorf(errMsg) == [nil |-> FALSE, msg |-> errMsg]

\* the results of ParseContractError; the cross mark that every rewritten
\* message starts with is left out of the texts
NilResult == [kind |-> "nil", friendly |-> "", text |-> <<>>]
Friendly(f) == [kind |-> "friendly", friendly |-> f, text |-> <<>>]
ContractError(cleanMsg) == [kind |-> "Contract error: %s", friendly |-> "", text |-> cleanMsg]
DataError(cleanMsg) == [kind |-> "%s", friendly |-> "", text |-> cleanMsg]
Original(err) == [kind |-> "err", friendly |-> "", text |-> err.msg]
SlicePanic == [kind |-> "panic: slice bounds out of range", friendly |-> "", text |-> <<>>]

errorMappings ==
  {[pattern |-> <<"A", "n", "c", "i", "l", "l", "a", "r", "y", " ", "d", "a", "t", "a", " ", "c", "a", "n", "n", "o", "t", " ", "b", "e", " ", "e", "m", "p", "t", "y">>,
    friendly |-> "Question/ancillary data is required"],
   [pattern |-> <<"D", "e", "a", "d", "l", "i", "n", "e", " ", "m", "u", "s", "t", " ", "b", "e", " ", "a", "t", " ", "l", "e", "a", "s", "t", " ", "2", "4", " ", "h", "o", "u", "r", "s", " ", "i", "n", " ", "t", "h", "e", " ", "f", "u", "t", "u", "r", "e">>,
    friendly |-> "Deadline must be at least 24 hours from now"],
   [pattern |-> <<"I", "n", "c", "o", "r", "r", "e", "c", "t", " ", "r", "e", "w", "a", "r", "d", " ", "a", "m", "o", "u", "n", "t", " ", "s", "e", "n", "t">>,
    friendly |-> "Incorrect reward amount (check with 'goo query params')"],
   [pattern |-> <<"R", "e", "q", "u", "e", "s", "t", " ", "w", "i", "t", "h", " ", "t", "h", "i", "s", " ", "I", "D", " ", "d", "o", "e", "s", " ", "n", "o", "t", " ", "e", "x", "i", "s", "t">>,
    friendly |-> "Request not found - invalid request ID"],
   [pattern |-> <<"R", "e", "q", "u", "e", "s", "t", " ", "i", "s", " ", "n", "o", "t", " ", "i", "n", " ", "'", "R", "e", "q", "u", "e", "s", "t", "e", "d", "'", " ", "s", "t", "a", "t", "e">>,
    friendly |-> "Request is not available for proposals (may be already proposed, disputed, or resolved)"],
   [pattern |-> <<"D", "e", "a", "d", "l", "i", "n", "e", " ", "f", "o", "r", " ", "p", "r", "o", "p", "o", "s", "a", "l", " ", "h", "a", "s", " ", "p", "a", "s", "s", "e", "d">>,
    friendly |-> "Proposal deadline has passed"],
   [pattern |-> <<"R", "e", "q", "u", "e", "s", "t", " ", "h", "a", "s", " ", "n", "o", "t", " ", "b", "e", "e", "n", " ", "p", "r", "o", "p", "o", "s", "e", "d", " ", "y", "e", "t">>,
    friendly |-> "No proposal submitted for this request yet"],
   [pattern |-> <<"R", "e", "q", "u", "e", "s", "t", " ", "i", "s", " ", "a", "l", "r", "e", "a", "d", "y", " ", "r", "e", "s", "o", "l", "v", "e", "d">>,
    friendly |-> "Request is already resolved"],
   [pattern |-> <<"c", "a", "n", "n", "o", "t", " ", "r", "e", "t", "r", "e", "i", "v", "e", " ", "f", "u", "n", "d", " ", "a", "s", " ", "r", "e", "q", "u", "e", "s", "t", "s", " ", "f", "u", "l", "f", "i", "l", "l", "e", "d">>,
    friendly |-> "Cannot retrieve funds - request has been fulfilled"],
   [pattern |-> <<"O", "n", "l", "y", " ", "t", "h", "e", " ", "c", "r", "e", "a", "t", "o", "r", " ", "o", "f", " ", "t", "h", "e", " ", "r", "e", "q", "u", "e", "s", "t", " ", "c", "a", "n", " ", "r", "e", "t", "r", "i", "e", "v", "e", " ", "t", "h", "e", " ", "f", "u", "n", "d">>,
    friendly |-> "Only the request creator can retrieve the fund"],
   [pattern |-> <<"C", "a", "n", "n", "o", "t", " ", "r", "e", "t", "r", "i", "e", "v", "e", " ", "f", "u", "n", "d", " ", "b", "e", "f", "o", "r", "e", " ", "t", "h", "e", " ", "d", "e", "a", "d", "l", "i", "n", "e">>,
    friendly |-> "Cannot retrieve fund - deadline not reached yet"],
   [pattern |-> <<"P", "r", "o", "p", "o", "s", "e", "d", " ", "v", "a", "l", "u", "e", " ", "m", "u", "s", "t", " ", "b", "e", " ", "0", " ", "o", "r", " ", "1", " ", "f", "o", "r", " ", "y", "e", "s", "/", "n", "o", " ", "q", "u", "e", "s", "t", "i", "o", "n", "s">>,
    friendly |-> "For yes/no questions, value must be 0 (no) or 1 (yes)"],
   [pattern |-> <<"I", "n", "c", "o", "r", "r", "e", "c", "t", " ", "b", "o", "n", "d", " ", "a", "m", "o", "u", "n", "t", " ", "s", "e", "n", "t">>,
    friendly |-> "Incorrect bond amount (check with 'goo query params')"],
   [pattern |-> <<"R", "e", "s", "o", "l", "u", "t", "i", "o", "n", " ", "p", "e", "r", "i", "o", "d", " ", "h", "a", "s", " ", "n", "o", "t", " ", "e", "n", "d", "e", "d", " ", "y", "e", "t">>,
    friendly |-> "Cannot resolve yet - resolution period still active"],
   [pattern |-> <<"R", "e", "q", "u", "e", "s", "t", " ", "i", "s", " ", "i", "n", " ", "'", "D", "i", "s", "p", "u", "t", "e", "d", "'", " ", "s", "t", "a", "t", "e">>,
    friendly |-> "Cannot resolve - request is disputed"],
   [pattern |-> <<"P", "r", "o", "p", "o", "s", "e", "r", " ", "c", "a", "n", "n", "o", "t", " ", "d", "i", "s", "p", "u", "t", "e", " ", "t", "h", "e", "i", "r", " ", "o", "w", "n", " ", "p", "r", "o", "p", "o", "s", "a", "l">>,
    friendly |-> "You cannot dispute your own proposal"],
   [pattern |-> <<"R", "e", "q", "u", "e", "s", "t", " ", "i", "s", " ", "n", "o", "t", " ", "i", "n", " ", "'", "P", "r", "o", "p", "o", "s", "e", "d", "'", " ", "s", "t", "a", "t", "e">>,
    friendly |-> "Request is not in proposed state (may be already disputed or resolved)"],
   [pattern |-> <<"D", "i", "s", "p", "u", "t", "e", " ", "p", "e", "r", "i", "o", "d", " ", "h", "a", "s", " ", "e", "n", "d", "e", "d">>,
    friendly |-> "Dispute period has ended"],
   [pattern |-> <<"D", "i", "s", "p", "u", "t", "e", " ", "f", "o", "r", " ", "t", "h", "i", "s", " ", "r", "e", "q", "u", "e", "s", "t", " ", "a", "l", "r", "e", "a", "d", "y", " ", "e", "x", "i", "s", "t", "s">>,
    friendly |-> "This request is already disputed"],
   [pattern |-> <<"D", "i", "s", "p", "u", "t", "e", " ", "i", "s", " ", "a", "l", "r", "e", "a", "d", "y", " ", "r", "e", "s", "o", "l", "v", "e", "d">>,
    friendly |-> "Dispute is already resolved"],
   [pattern |-> <<"D", "i", "s", "p", "u", "t", "e", " ", "p", "e", "r", "i", "o", "d", " ", "h", "a", "s", " ", "n", "o", "t", " ", "e", "n", "d", "e", "d", " ", "y", "e", "t">>,
    friendly |-> "Dispute period has not ended yet"],
   [pattern |-> <<"R", "e", "q", "u", "e", "s", "t", " ", "i", "s", " ", "n", "o", "t", " ", "r", "e", "s", "o", "l", "v", "e", "d">>,
    friendly |-> "Request is not resolved yet - cannot get result"],
   [pattern |-> <<"Y", "o", "u", " ", "a", "l", "r", "e", "a", "d", "y", " ", "h", "a", "v", "e", " ", "a", " ", "v", "o", "t", "e", " ", "t", "o", "k", "e", "n">>,
    friendly |-> "You already own a vote token"],
   [pattern |-> <<"M", "u", "s", "t", " ", "s", "e", "n", "d", " ", "e", "x", "a", "c", "t", "l", "y">>,
    friendly |-> "Incorrect vote token price (check with 'goo query params')"],
   [pattern |-> <<"P", "r", "o", "p", "o", "s", "e", "r", " ", "a", "n", "d", " ", "D", "i", "s", "p", "u", "t", "e", "r", " ", "c", "a", "n", "n", "o", "t", " ", "v", "o", "t", "e", " ", "i", "n", " ", "t", "h", "i", "s", " ", "d", "i", "s", "p", "u", "t", "e">>,
    friendly |-> "Proposers and disputers cannot vote on their own disputes"],
   [pattern |-> <<"V", "o", "t", "e", "r", " ", "h", "a", "s", " ", "a", "l", "r", "e", "a", "d", "y", " ", "v", "o", "t", "e", "d", " ", "i", "n", " ", "t", "h", "i", "s", " ", "d", "i", "s", "p", "u", "t", "e">>,
    friendly |-> "You have already voted in this dispute"],
   [pattern |-> <<"Y", "o", "u", " ", "n", "e", "e", "d", " ", "a", "t", " ", "l", "e", "a", "s", "t", " ", "1", " ", "v", "o", "t", "e", " ", "t", "o", "k", "e", "n", " ", "t", "o", " ", "v", "o", "t", "e">>,
    friendly |-> "You need to buy a vote token first ('goo vote buy-token')"],
   [pattern |-> <<"V", "o", "t", "e", " ", "p", "e", "r", "i", "o", "d", " ", "h", "a", "s", " ", "e", "n", "d", "e", "d">>,
    friendly |-> "Voting period has ended"],
   [pattern |-> <<"V", "o", "t", "e", " ", "p", "e", "r", "i", "o", "d", " ", "h", "a", "s", " ", "n", "o", "t", " ", "e", "n", "d", "e", "d", " ", "y", "e", "t">>,
    friendly |-> "Cannot reveal yet - voting period still active"],
   [pattern |-> <<"R", "e", "v", "e", "a", "l", " ", "p", "e", "r", "i", "o", "d", " ", "h", "a", "s", " ", "e", "n", "d", "e", "d">>,
    friendly |-> "Reveal period has ended"],
   [pattern |-> <<"V", "o", "t", "e", "r", " ", "d", "i", "d", " ", "n", "o", "t", " ", "p", "a", "r", "t", "i", "c", "i", "p", "a", "t", "e", " ", "i", "n", " ", "t", "h", "i", "s", " ", "d", "i", "s", "p", "u", "t", "e">>,
    friendly |-> "You did not vote in this dispute"],
   [pattern |-> <<"V", "o", "t", "e", " ", "a", "l", "r", "e", "a", "d", "y", " ", "r", "e", "v", "e", "a", "l", "e", "d">>,
    friendly |-> "Vote already revealed"],
   [pattern |-> <<"H", "a", "s", "h", " ", "d", "o", "e", "s", " ", "n", "o", "t", " ", "m", "a", "t", "c", "h", " ", "t", "h", "e", " ", "r", "e", "v", "e", "a", "l", "e", "d", " ", "v", "a", "l", "u", "e", " ", "a", "n", "d", " ", "s", "a", "l", "t">>,
    friendly |-> "Hash mismatch - value or salt incorrect (check ~/.goo/votes/)"],
   [pattern |-> <<"D", "i", "s", "p", "u", "t", "e", " ", "w", "i", "t", "h", " ", "t", "h", "i", "s", " ", "I", "D", " ", "d", "o", "e", "s", " ", "n", "o", "t", " ", "e", "x", "i", "s", "t">>,
    friendly |-> "Dispute not found - invalid dispute ID"],
   [pattern |-> <<"D", "i", "s", "p", "u", "t", "e", " ", "i", "s", " ", "r", "e", "s", "o", "l", "v", "e", "d">>,
    friendly |-> "Dispute is already resolved"],
   [pattern |-> <<"O", "n", "l", "y", " ", "t", "h", "e", " ", "a", "d", "m", "i", "n", " ", "c", "a", "n">>,
    friendly |-> "Admin privileges required"],
   [pattern |-> <<"O", "n", "l", "y", " ", "a", "d", "m", "i", "n", " ", "c", "a", "n">>,
    friendly |-> "Admin privileges required"],
   [pattern |-> <<"m", "i", "s", "s", "i", "n", "g", " ", "r", "e", "a", "l", "m", " ", "a", "r", "g", "u", "m", "e", "n", "t">>,
    friendly |-> "Internal error - realm context required"],
   [pattern |-> <<"q", "u", "e", "r", "y", " ", "f", "a", "i", "l", "e", "d">>,
    friendly |-> "Query failed"],
   [pattern |-> <<"f", "a", "i", "l", "e", "d", " ", "t", "o", " ", "q", "u", "e", "r", "y">>,
    friendly |-> "Failed to query contract"]}

\* the part after the loop: the envelope of a contract error is cleaned up
cleanUp(err) ==
  LET errMsg == err.msg
      idx == Index(errMsg, <<"e", "r", "r", "o", "r", ":">>)
      rest == Slice(errMsg, idx + 7, Len(errMsg))
      endIdx == Index(rest, <<"\n">>)
      idxData == Index(errMsg, <<"D", "a", "t", "a", ":">>)
      restData == Slice(errMsg, idxData + 5, Len(errMsg))
      endData == Index(restData, <<"\n">>)
  IN IF ~Contains(errMsg, <<"E", "r", "r", "o", "r", " ", "=", "-", "-">>) THEN Original(err)
     ELSE IF idx # -1 /\ idx + 7 > Len(errMsg) THEN SlicePanic
     ELSE IF idx # -1 /\ endIdx # -1 THEN ContractError(TrimSpace(Slice(rest, 0, endIdx)))
     ELSE IF idxData # -1 /\ endData # -1 THEN DataError(TrimSpace(Slice(restData, 0, endData)))
     ELSE Original(err)

\* The results one call can give. The loop ranges over a Go map, whose
\* iteration order is not specified: the pattern that is met first, among
\* those the message contains, can be any of them.
ParseContractError(err) ==
  IF err.nil THEN {NilResult}
  ELSE LET hits == {m \in errorMappings : Contains(err.msg, m.pattern)}
       IN IF hits # {} THEN {Friendly(m.friendly) : m \in hits} ELSE {cleanUp(err)}

\* the pieces error messages are put together from
ErrPieces ==
  {<<"q", "u", "e", "r", "y", " ", "f", "a", "i", "l", "e", "d", ":", " ">>, <<"R", "e", "q", "u", "e", "s", "t", " ", "w", "i", "t", "h", " ", "t", "h", "i", "s", " ", "I", "D", " ", "d", "o", "e", "s", " ", "n", "o", "t", " ", "e", "x", "i", "s", "t">>, <<"O", "n", "l", "y", " ", "t", "h", "e", " ", "a", "d", "m", "i", "n", " ", "c", "a", "n">>,
   <<"E", "r", "r", "o", "r", " ", "=", "-", "-">>, <<"e", "r", "r", "o", "r", ":", " ", "b", "o", "o", "m", "\n">>, <<"D", "a", "t", "a", ":", " ", "o", "o", "p", "s", "\n">>, <<"e", "r", "r", "o", "r", ":">>, <<"x">>}
MaxErrPieces == 3

\* the calls made with one and the same error
MaxCalls == 2

InitError ==
  /\ \/ kind = "error" /\ shape \in [pieces : SeqsUpTo(ErrPieces, MaxErrPieces)]
     \/ kind = "nil error" /\ shape = [pieces |-> <<>>]
  /\ output = Flatten(shape.pieces)
  /\ result = None
  /\ IdleVote /\ IdleCodec /\ IdleSplit /\ IdleRace

\* one more call of ParseContractError with the error of this run
CallParseContractError ==
  /\ kind \in {"error", "nil error"}
  /\ IF result = None THEN TRUE ELSE Len(result.rec.calls) < MaxCalls
  /\ \E r \in ParseContractError(IF kind = "nil error" THEN NilError ELSE Errorf(output)) :
       result' = [err |-> "nil", got |-> -1,
                  rec |-> [calls |-> Append(IF result = None THEN <<>> ELSE result.rec.calls, r)]]
  /\ UNCHANGED <<output, kind, shape, voteVars, codecVars, splitVars, raceVars>>

NextError == CallParseContractError

SpecError == InitError /\ [][NextError]_vars

\* C30: ParseContractError is a function of the error message alone: every
\* call with the same message gives the same result, also when the message
\* holds several known patterns; a nil error gives nil; a message that holds
\* no known pattern and no contract-error envelope is returned unchanged.
C30_FunctionOfMessage ==
  result # None =>
    LET calls == result.rec.calls
    IN /\ \A a \in 1..Len(calls), b \in 1..Len(calls) : calls[a] = calls[b]
       /\ kind = "nil error" => \A a \in 1..Len(calls) : calls[a] = NilResult
       /\ (kind = "error" /\ ~Contains(output, <<"E", "r", "r", "o", "r", " ", "=", "-", "-">>)
              /\ \A m \in errorMappings : ~Contains(output, m.pattern))
            => \A a \in 1..Len(calls) : calls[a] = Original(Errorf(output))
====
